---------------------------- MODULE Spec2Model ----------------------------
(***************************************************************************)
(* The RSVP write path of the community hub: the repository functions      *)
(* create_rsvp / get_event / list_events / create_event                    *)
(* (app/db/repositories/__init__.py), the cache-aside decorator            *)
(* (app/cache/cache_decorators.py) over the Redis client                   *)
(* (app/cache/redis_client.py), and the services that publish a domain     *)
(* event after the repository call (app/services/*.py).                    *)
(*                                                                         *)
(* Every request is a task that runs the handler's code from one await to  *)
(* the next; tasks of different requests interleave at those awaits.       *)
(*                                                                         *)
(*   Spec      every handler, interleaved                                  *)
(*   SpecRsvp  the RSVP and read handlers, interleaved, no event created   *)
(*   SpecSeq   every handler, one request at a time                        *)
(***************************************************************************)
EXTENDS Integers, Sequences, FiniteSets, TLC

\* ------------------------------------------------------------------ bounds
\* Requests started in one behaviour.
MaxRequests == 2
\* Largest positive capacity an event is created with.
MaxCapacity == 1

\* Concurrent request handlers.
Tasks == {"t1", "t2"}
\* Authenticated users (rows of the users table; never deleted).
Users == {"alice", "bob"}
\* The uuid4 values an event id can take.
EventIds == {"e1", "e2"}
\* The users whose role is organizer (role_required("organizer")).
Organizers == {"alice"}
\* limit values list_events is called with (offset 0, no filter).
ListLimits == {"1", "20"}

\* ------------------------------------------------------------ data model
\* RSVPStatusEnum
Statuses == {"going", "interested", "cancelled"}

\* Python's None for an Optional[int] (capacity, available_spots).
None == -1
\* Event.capacity: nullable Integer, default 0
Capacities == {None} \cup (0..MaxCapacity)

\* Truthiness of an Optional[int]: None and 0 are falsy.
Truthy(c) == c # None /\ c # 0

Max(a, b) == IF a >= b THEN a ELSE b

\* The HTTPException (status code and detail) create_rsvp raises, and the 404
\* of the event detail route.
NotFoundError == "404 Event not found"
CapacityError == "400 Event is at full capacity"
DuplicateError == "409 already RSVP'd"

\* A value that is Python None (a function that returned nothing to cache).
NoValue == [kind |-> "none"]

VARIABLES
    events,     \* events table: id -> [capacity, created_by, created_at]
    rsvps,      \* rsvps table: set of rows [id, user_id, event_id, status]
    cache,      \* Redis: key -> [value: the JSON value as a record, at: the
                \* time it was stored, expire: its time to live]
    broker,     \* messages published to the communityhub.events exchange
    task,       \* per task: the running handler, its arguments, locals, outcome;
                \* held is history: the user held an RSVP for the event when
                \* the request arrived; evicted is what delete_pattern
                \* returned to the handler
    requests,   \* number of requests started so far
    up,         \* whether the Redis server answers the client
    users,      \* users table: set of rows [id, email]
    active,     \* ConnectionManager.active: user id -> list of websockets
    ws,         \* per websocket: the user of its path and its state
    tokens,     \* per access token: its user, whether it is issued, valid or
                \* expired, and as history whether a logout returned for it
    worker,     \* the consumer: its position in handle_message, its locals,
                \* and as history the pushes it attempted for the message
    now,        \* the Redis server's clock, in seconds
    consumer,   \* run_worker: its position, the connection attempt it is at,
                \* what it declared on the channel, and as history the
                \* seconds it slept, the messages it acknowledged and
                \* rejected, the errors it logged, and whether the handler of
                \* the current message raised
    reg,        \* per websocket: where its endpoint is inside
                \* ConnectionManager.connect or disconnect, the list it read
                \* under the lock, and as history the token it presented and
                \* the last registry write it made
    lock,       \* ConnectionManager.lock: the websocket whose endpoint holds it
    publisher   \* publisher.py: the globals _connection and _channel (a
                \* channel is named by its connection), the connections that
                \* are closed, and as history how many were opened

notify_vars == <<users, active, ws, worker>>

\* The state outside the request handlers' reach: the Redis server's clock and
\* the consumer task.
conn_vars == <<reg, lock>>

env_vars == <<now, consumer, conn_vars, publisher>>

vars == <<events, rsvps, cache, broker, task, requests, up, tokens, notify_vars, env_vars>>

\* The event the database is seeded with.
SeededEvent == "e1"

\* The access tokens login may issue.
Tokens == {"k1", "k2"}

\* A token login has not issued.
NoToken == [user |-> "none", state |-> "unissued", logged_out |-> FALSE]

\* The addresses a registration may carry, and the ids of new users.
Emails == {"alice", "bob", "carol"}

NewUserIds == {"u3", "u4"}

RevokedError == "401 Token has been revoked"
CredentialsError == "401 Could not validate credentials"
EmailTakenError == "400 Email already registered"
PasswordError == "400 Password must ..."

\* The websockets clients may open, and the messages the consumer may take.
Sockets == {"w1", "w2"}

MaxMessages == 2

\* The routing keys the notifications queue is bound to (rsvp.*).
MessageTypes == {"rsvp.created", "rsvp.cancelled"}

\* The consumer between two messages.
IdleWorker ==
    [pc |-> "wait", type |-> "none", event_id |-> "none", user_id |-> "none",
     ev |-> "none", usr |-> FALSE, target |-> "none", notice |-> "none",
     conns |-> << >>, owner_conns |-> << >>, user_conns |-> << >>,
     pushes |-> << >>, consumed |-> 0]

\* A websocket nobody has opened yet.
FreeSocket == [user |-> "none", state |-> "free"]

IdleTask ==
    [op |-> "none", pc |-> "idle", user |-> "none", event |-> "none",
     status |-> "none", limit |-> "none", capacity |-> None,
     result |-> NoValue, repo |-> "none", resp |-> "none", held |-> FALSE,
     evicted |-> 0, token |-> "none", email |-> "none", password |-> "none",
     age |-> None, conn |-> None, chan |-> None, total |-> None]

\* ------------------------------------------------------------- the tables
\* The count without the status filter.
get_event_rsvp_count_AnyStatus(rows, e) ==
    Cardinality({r \in rows : r.event_id = e})

\* select(func.count(RSVP.id)).where(event_id == e, status == going)
get_event_rsvp_count(rows, e) ==
    Cardinality({r \in rows : r.event_id = e /\ r.status = "going"})

\* The table without the constraint: no insert is refused.
uq_user_event_rsvp_Missing(rows, u, e) == FALSE

\* UniqueConstraint('user_id', 'event_id', name='uq_user_event_rsvp'): the
\* insert of (u, e) is refused when a row of that pair exists.
uq_user_event_rsvp(rows, u, e) ==
    \E r \in rows : r.user_id = u /\ r.event_id = e

\* available_spots with the limit test reduced to "capacity is not None"
available_spots_ZeroIsLimit(capacity, rsvp_count) ==
    IF capacity # None
    THEN Max(0, capacity - rsvp_count)
    ELSE None

\* available_spots without the max(0, ...).
available_spots_Unclamped(capacity, rsvp_count) ==
    IF Truthy(capacity) /\ capacity > 0
    THEN capacity - rsvp_count
    ELSE None

\* available_spots as get_event and list_events compute it
available_spots(capacity, rsvp_count) ==
    IF Truthy(capacity) /\ capacity > 0
    THEN Max(0, capacity - rsvp_count)
    ELSE None


\* ---------------------------------------------------------------- the cache
\* cached(key_prefix, expire=300), and the expire=300 of every @cached
CacheTTL == 300

\* settings.ACCESS_TOKEN_EXPIRE_MINUTES
ACCESS_TOKEN_EXPIRE_MINUTES == 60

\* timedelta(minutes=...) in seconds
SecondsPerMinute == 60

\* hashlib.md5(json.dumps({'args': [...], 'kwargs': {...}}, sort_keys=True)):
\* the digest is a function of the stringified arguments and of nothing else,
\* and is never the text of an argument.
generate_key_from_args(args, kwargs) == [hashed |-> TRUE, text |-> args \o kwargs]

\* f"{key_prefix}:{args_key}" as cached.wrapper builds it
CacheKey(key_prefix, args, kwargs) ==
    [prefix |-> key_prefix] @@ generate_key_from_args(args, kwargs)

\* f"events:detail:{payload.event_id}": the prefix followed by the id itself
LiteralKey(key_prefix, id) == [prefix |-> key_prefix, hashed |-> FALSE, text |-> <<id>>]

\* The key get_event(db, event_id) is cached under (the session is skipped).
DetailKey(e) == CacheKey("events:detail", <<e>>, <<>>)

\* The key list_events(db, limit=l, offset=0, <no filter>) is cached under.
ListKey(l) ==
    CacheKey("events:list", <<>>,
             <<"category", "None", "created_by", "None", "limit", l, "offset", "0",
               "search", "None", "starts_after", "None", "starts_before", "None">>)

\* RedisCache.get: the stored JSON decoded, None when absent (a stored null
\* decodes to None as well).
RedisGet(c, key) == IF key \in DOMAIN c THEN c[key].value ELSE NoValue

\* SET without EX: the entry is stored with no time to live.
RedisSet_NoExpiry(c, key, value, expire) ==
    (key :> [value |-> value, at |-> now, expire |-> None]) @@ c

\* RedisCache.set: setex(key, expire, json.dumps(value)); the entry replaces
\* the one under the key and lives expire seconds from now.
RedisSet(c, key, value, expire) ==
    (key :> [value |-> value, at |-> now, expire |-> expire]) @@ c

\* RedisCache.delete
RedisDelete(c, key) == [k \in DOMAIN c \ {key} |-> c[k]]

\* KEYS "<prefix>:*" read as a DEL of the one key named "<prefix>:*".
RedisDeletePattern_ExactKey(c, key_prefix) ==
    RedisDelete(c, LiteralKey(key_prefix, "*"))

\* delete_pattern flushing the database when KEYS returns nothing.
RedisDeletePattern_FlushesOnNoMatch(c, key_prefix) ==
    IF {x \in DOMAIN c : x.prefix = key_prefix} = {}
    THEN << >>
    ELSE [k \in {x \in DOMAIN c : x.prefix # key_prefix} |-> c[k]]

\* RedisCache.delete_pattern("<prefix>:*"): KEYS, then DEL of every match
RedisDeletePattern(c, key_prefix) ==
    [k \in {x \in DOMAIN c : x.prefix # key_prefix} |-> c[k]]

\* client.keys(pattern)
RedisKeys(c, key_prefix) == {k \in DOMAIN c : k.prefix = key_prefix}

\* The RedisCache methods as their callers see them: every method catches the
\* client's exception, logs it and returns None, False or 0.
cache_get(key) == IF up THEN RedisGet(cache, key) ELSE NoValue

cache_set(key, value, expire) ==
    IF up THEN RedisSet(cache, key, value, expire) ELSE cache

cache_delete(key) == IF up THEN RedisDelete(cache, key) ELSE cache

cache_delete_pattern(key_prefix) ==
    IF up THEN RedisDeletePattern(cache, key_prefix) ELSE cache

\* What delete_pattern returns: the number of keys DEL removed, 0 on an error.
deleted_by_pattern(key_prefix) ==
    IF up THEN Cardinality(RedisKeys(cache, key_prefix)) ELSE 0

\* ------------------------------------------------------- the read queries
\* The dict get_event and list_events build for one event row.
EventDict(e) ==
    [kind |-> "event", id |-> e, capacity |-> events[e].capacity,
     available_spots |->
        available_spots(events[e].capacity, get_event_rsvp_count(rsvps, e))]

\* get_event's body: the event's dict, None when there is no such event.
get_event_query(e) == IF e \in DOMAIN events THEN EventDict(e) ELSE NoValue

\* Event ids by created_at, newest first.
RECURSIVE NewestFirst(_)
NewestFirst(ids) ==
    IF ids = {} THEN <<>>
    ELSE LET newest == CHOOSE e \in ids :
                           \A o \in ids : events[o].created_at <= events[e].created_at
         IN  <<newest>> \o NewestFirst(ids \ {newest})

Take(seq, n) == SubSeq(seq, 1, IF Len(seq) < n THEN Len(seq) ELSE n)

LimitOf(l) == IF l = "1" THEN 1 ELSE 20

\* list_events' body with no filter and offset 0
list_events_query(l) ==
    LET ordered == Take(NewestFirst(DOMAIN events), LimitOf(l))
    IN  [kind |-> "list", items |-> [i \in 1..Len(ordered) |-> EventDict(ordered[i])]]


\* run_worker: max_retries
max_retries == 10

\* run_worker: delay, in seconds
delay == 5

\* What run_worker has declared once it iterates the queue.
Topology ==
    <<[exchange |-> "communityhub.events", type |-> "topic"],
      [queue |-> "communityhub.notifications"],
      [bind |-> "communityhub.notifications", to |-> "communityhub.events",
       routing_key |-> "rsvp.*"]>>

\* run_worker as on_startup creates it.
NewConsumer ==
    [pc |-> "connect", attempt |-> 1, declared |-> << >>, slept |-> 0,
     acked |-> 0, rejected |-> 0, errors |-> 0, raised |-> FALSE]

\* run_worker iterating the queue after its first attempt connected.
StartedConsumer == [NewConsumer EXCEPT !.pc = "consuming", !.declared = Topology]

\* _connection = None; _channel = None
NoPublisher == [connection |-> None, channel |-> None, closed |-> {}, opened |-> 0]

\* The query parameter of a websocket request that carried none yet.
NoWsToken == [decodes |-> FALSE, type |-> "none", sub |-> "none"]

\* A websocket whose endpoint is in neither connect nor disconnect.
IdleReg ==
    [pc |-> "idle", op |-> "none", conns |-> << >>, done |-> "none",
     token |-> NoWsToken]

\* ConnectionManager.__init__: the lock is free.
InitConn == reg = [s \in Sockets |-> IdleReg] /\ lock = "none"

\* The clock starts at the moment the cache is empty; the consumer is
\* iterating the queue.
InitEnv ==
    /\ now = 0
    /\ consumer = StartedConsumer
    /\ InitConn
    /\ publisher = NoPublisher

\* ------------------------------------------------------------------- Init
\* A database seeded with one event and no RSVP yet, an empty cache, an idle
\* broker, no request in flight.
Init ==
    /\ \E c \in Capacities :
           events = (SeededEvent :> [capacity |-> c, created_by |-> "alice", created_at |-> 1])
    /\ rsvps = {}
    /\ cache = << >>
    /\ broker = << >>
    /\ task = [t \in Tasks |-> IdleTask]
    /\ requests = 0
    /\ up = TRUE
    /\ users = {[id |-> u, email |-> u] : u \in Users}
    /\ active = << >>
    /\ ws = [s \in Sockets |-> FreeSocket]
    /\ worker = IdleWorker
    /\ tokens = [k \in Tokens |-> NoToken]
    /\ InitEnv

Set(t, fields) == task' = [task EXCEPT ![t] = fields @@ task[t]]

At(t, op, pc) == task[t].op = op /\ task[t].pc = pc

\* A request arrives and its handler starts on a free task.
Begin(t, fields) ==
    /\ task[t].pc = "idle"
    /\ requests < MaxRequests
    /\ requests' = requests + 1
    /\ Set(t, fields)

\* --------------------------------------------- POST /rsvps: create_rsvp
\* create_rsvp_endpoint -> RSVPService.create_rsvp -> repositories.create_rsvp
StartCreateRsvp(t) ==
    \E u \in Users, e \in EventIds, s \in Statuses :
        /\ Begin(t, [op |-> "create_rsvp", pc |-> "select_event",
                     user |-> u, event |-> e, status |-> s,
                     held |-> uq_user_event_rsvp(rsvps, u, e)])
        /\ UNCHANGED <<env_vars, events, rsvps, cache, broker, up, tokens, notify_vars>>

\* The handler without the "if not event" test: a missing event is taken for an
\* unlimited one.
SelectEvent_NoNotFound(t) ==
    /\ At(t, "create_rsvp", "select_event")
    /\ LET e == task[t].event
           capacity == IF e \in DOMAIN events THEN events[e].capacity ELSE None IN
       IF Truthy(capacity) /\ capacity > 0 /\ task[t].status = "going"
       THEN Set(t, [pc |-> "count", capacity |-> capacity])
       ELSE Set(t, [pc |-> "commit", capacity |-> capacity])
    /\ UNCHANGED <<env_vars, events, rsvps, cache, broker, requests, up, tokens, notify_vars>>

\* The event lookup, the 404, and the decision whether capacity is checked.
SelectEvent(t) ==
    /\ At(t, "create_rsvp", "select_event")
    /\ LET e == task[t].event IN
       IF e \notin DOMAIN events
       THEN Set(t, [pc |-> "done", repo |-> NotFoundError,
                    resp |-> NotFoundError])
       ELSE LET capacity == events[e].capacity IN
            IF Truthy(capacity) /\ capacity > 0 /\ task[t].status = "going"
            THEN Set(t, [pc |-> "count", capacity |-> capacity])
            ELSE Set(t, [pc |-> "commit", capacity |-> capacity])
    /\ UNCHANGED <<env_vars, events, rsvps, cache, broker, requests, up, tokens, notify_vars>>

\* current_count >= event.capacity with the operands swapped into a strict test
AtCapacity_Strict(current_count, capacity) == current_count > capacity

\* if current_count >= event.capacity: raise 400
AtCapacity(current_count, capacity) == current_count >= capacity

\* The capacity error raised with the row left in the table.
CountGoing_InsertsWhenFull(t) ==
    /\ At(t, "create_rsvp", "count")
    /\ IF AtCapacity(get_event_rsvp_count(rsvps, task[t].event), task[t].capacity)
       THEN /\ Set(t, [pc |-> "done", repo |-> CapacityError,
                       resp |-> CapacityError])
            /\ rsvps' = rsvps \cup {[id |-> Cardinality(rsvps) + 1,
                                      user_id |-> task[t].user,
                                      event_id |-> task[t].event,
                                      status |-> task[t].status]}
       ELSE Set(t, [pc |-> "commit"]) /\ UNCHANGED rsvps
    /\ UNCHANGED <<env_vars, events, cache, broker, requests, up, tokens, notify_vars>>

\* The capacity pre-check: the count is read now, the insert happens later.
CountGoing(t) ==
    /\ At(t, "create_rsvp", "count")
    /\ IF AtCapacity(get_event_rsvp_count(rsvps, task[t].event), task[t].capacity)
       THEN Set(t, [pc |-> "done", repo |-> CapacityError,
                    resp |-> CapacityError])
       ELSE Set(t, [pc |-> "commit"])
    /\ UNCHANGED <<env_vars, events, rsvps, cache, broker, requests, up, tokens, notify_vars>>

\* RSVP(user_id, event_id, status) with a fresh uuid4 id
NewRsvp(t) ==
    [id |-> Cardinality(rsvps) + 1, user_id |-> task[t].user,
     event_id |-> task[t].event, status |-> task[t].status]

\* The commit whose IntegrityError is not recognised as the unique constraint's
\* and falls through to the generic 400.
Commit_UnrecognisedConstraint(t) ==
    /\ At(t, "create_rsvp", "commit")
    /\ IF uq_user_event_rsvp(rsvps, task[t].user, task[t].event)
       THEN /\ Set(t, [pc |-> "done", repo |-> "400 Database constraint violation",
                       resp |-> "400 Database constraint violation"])
            /\ UNCHANGED rsvps
       ELSE /\ rsvps' = rsvps \cup {NewRsvp(t)}
            /\ Set(t, [pc |-> "invalidate_list", result |-> NewRsvp(t)])
    /\ UNCHANGED <<env_vars, events, cache, broker, requests, up, tokens, notify_vars>>

\* db.add(r); db.commit(): the insert, or the IntegrityError of the unique
\* constraint (PostgreSQL: duplicate key value violates unique constraint
\* "uq_user_event_rsvp"), rolled back and turned into the 409.
Commit(t) ==
    /\ At(t, "create_rsvp", "commit")
    /\ IF uq_user_event_rsvp(rsvps, task[t].user, task[t].event)
       THEN /\ Set(t, [pc |-> "done", repo |-> DuplicateError,
                       resp |-> DuplicateError])
            /\ UNCHANGED rsvps
       ELSE /\ rsvps' = rsvps \cup {NewRsvp(t)}
            /\ Set(t, [pc |-> "invalidate_list", result |-> NewRsvp(t)])
    /\ UNCHANGED <<env_vars, events, cache, broker, requests, up, tokens, notify_vars>>

\* delete_pattern letting the client's exception out of create_rsvp.
InvalidateList_Propagates(t) ==
    /\ At(t, "create_rsvp", "invalidate_list")
    /\ cache' = cache_delete_pattern("events:list")
    /\ IF up
       THEN Set(t, [pc |-> "invalidate_detail",
                    evicted |-> deleted_by_pattern("events:list")])
       ELSE Set(t, [pc |-> "done", resp |-> "500"])
    /\ UNCHANGED <<env_vars, events, rsvps, broker, requests, up, tokens, notify_vars>>

\* await cache.delete_pattern("events:list:*")
InvalidateList(t) ==
    /\ At(t, "create_rsvp", "invalidate_list")
    /\ cache' = cache_delete_pattern("events:list")
    /\ Set(t, [pc |-> "invalidate_detail",
               evicted |-> deleted_by_pattern("events:list")])
    /\ UNCHANGED <<env_vars, events, rsvps, broker, requests, up, tokens, notify_vars>>

\* The key create_rsvp deletes, were it the key get_event caches under.
InvalidatedDetailKey_Hashed(e) == DetailKey(e)

\* f"events:detail:{payload.event_id}"
InvalidatedDetailKey(e) == LiteralKey("events:detail", e)

\* await cache.delete(f"events:detail:{payload.event_id}"); return r
InvalidateDetail(t) ==
    /\ At(t, "create_rsvp", "invalidate_detail")
    /\ cache' = cache_delete(InvalidatedDetailKey(task[t].event))
    /\ Set(t, [pc |-> "publish", repo |-> "ok"])
    /\ UNCHANGED <<env_vars, events, rsvps, broker, requests, up, tokens, notify_vars>>

\* The payload RSVPService.create_rsvp publishes under rsvp.created
RsvpCreated(r) ==
    [type |-> "rsvp.created", rsvp_id |-> r.id, user_id |-> r.user_id,
     event_id |-> r.event_id]

\* publish_event putting the message on the exchange twice.
PublishRsvp_Twice(t) ==
    /\ At(t, "create_rsvp", "publish")
    /\ broker' = Append(Append(broker, RsvpCreated(task[t].result)),
                        RsvpCreated(task[t].result))
    /\ Set(t, [pc |-> "done", resp |-> "200"])
    /\ UNCHANGED <<env_vars, events, rsvps, cache, requests, up, tokens, notify_vars>>

\* publish_event succeeds: the message is on the exchange, the RSVP is returned.
PublishRsvp(t) ==
    /\ At(t, "create_rsvp", "publish")
    /\ broker' = Append(broker, RsvpCreated(task[t].result))
    /\ Set(t, [pc |-> "done", resp |-> "200"])
    /\ UNCHANGED <<env_vars, events, rsvps, cache, requests, up, tokens, notify_vars>>

\* publish_event raises and the write is undone on it.
PublishRsvpFails_RollsBack(t) ==
    /\ At(t, "create_rsvp", "publish")
    /\ rsvps' = rsvps \ {task[t].result}
    /\ Set(t, [pc |-> "done", resp |-> "500"])
    /\ UNCHANGED <<env_vars, events, cache, broker, requests, up, tokens, notify_vars>>

\* publish_event raises (broker unreachable): nothing catches it in
\* RSVPService.create_rsvp or in the endpoint, the request ends in a 500; the
\* commit has happened and nothing undoes it.
PublishRsvpFails(t) ==
    /\ At(t, "create_rsvp", "publish")
    /\ Set(t, [pc |-> "done", resp |-> "500"])
    /\ UNCHANGED <<env_vars, events, rsvps, cache, broker, requests, up, tokens, notify_vars>>

\* ------------------------------------ GET /events/{id}, GET /events: reads
StartGetEvent(t) ==
    \E e \in EventIds :
        /\ Begin(t, [op |-> "get_event", pc |-> "cache_get", event |-> e])
        /\ UNCHANGED <<env_vars, events, rsvps, cache, broker, up, tokens, notify_vars>>

StartListEvents(t) ==
    \E l \in ListLimits :
        /\ Begin(t, [op |-> "list_events", pc |-> "cache_get", limit |-> l])
        /\ UNCHANGED <<env_vars, events, rsvps, cache, broker, up, tokens, notify_vars>>

\* The key cached.wrapper computes for the call the task is running.
WrapperKey(t) ==
    IF task[t].op = "get_event" THEN DetailKey(task[t].event) ELSE ListKey(task[t].limit)

\* What the route answers with the value the repository returned.
ReadResponse(t, value) ==
    IF task[t].op = "get_event" /\ value = NoValue THEN NotFoundError ELSE "200"

\* cached.wrapper: cache.get, and the return of a hit.
CacheGet(t) ==
    /\ task[t].op \in {"get_event", "list_events"}
    /\ task[t].pc = "cache_get"
    /\ LET cached_value == cache_get(WrapperKey(t)) IN
       IF cached_value # NoValue
       THEN Set(t, [pc |-> "done", result |-> cached_value,
                    resp |-> ReadResponse(t, cached_value),
                    age |-> now - cache[WrapperKey(t)].at])
       ELSE Set(t, [pc |-> "query"])
    /\ UNCHANGED <<env_vars, events, rsvps, cache, broker, requests, up, tokens, notify_vars>>

\* cached.wrapper on a miss: result = await func(...)
QueryGetEvent(t) ==
    /\ At(t, "get_event", "query")
    /\ Set(t, [pc |-> "cache_set", result |-> get_event_query(task[t].event)])
    /\ UNCHANGED <<env_vars, events, rsvps, cache, broker, requests, up, tokens, notify_vars>>

QueryListEvents(t) ==
    /\ At(t, "list_events", "query")
    /\ Set(t, [pc |-> "cache_set", result |-> list_events_query(task[t].limit)])
    /\ UNCHANGED <<env_vars, events, rsvps, cache, broker, requests, up, tokens, notify_vars>>

\* cached.wrapper on a miss: cache.set(cache_key, result, expire); return result
CacheSet(t) ==
    /\ task[t].op \in {"get_event", "list_events"}
    /\ task[t].pc = "cache_set"
    /\ cache' = cache_set(WrapperKey(t), task[t].result, CacheTTL)
    /\ Set(t, [pc |-> "done", resp |-> ReadResponse(t, task[t].result)])
    /\ UNCHANGED <<env_vars, events, rsvps, broker, requests, up, tokens, notify_vars>>

\* setex: an entry disappears when its TTL runs out.
Expire ==
    /\ \E k \in DOMAIN cache : cache' = RedisDelete(cache, k)
    /\ UNCHANGED <<env_vars, events, rsvps, broker, task, requests, up, tokens, notify_vars>>

\* -------------------------------------------- POST /events: create_event
\* The create_event handlers that have not inserted their event yet.
CreatingEvent == {t \in Tasks : task[t].op = "create_event" /\ task[t].pc = "commit"}

StartCreateEvent(t) ==
    \E u \in Organizers, c \in Capacities :
        /\ Cardinality(DOMAIN events) + Cardinality(CreatingEvent) < Cardinality(EventIds)
        /\ Begin(t, [op |-> "create_event", pc |-> "commit", user |-> u, capacity |-> c])
        /\ UNCHANGED <<env_vars, events, rsvps, cache, broker, up, tokens, notify_vars>>

\* Event(**payload.dict(), created_by=creator_id); db.add; db.commit
CommitEvent(t) ==
    /\ At(t, "create_event", "commit")
    /\ \E e \in EventIds \ DOMAIN events :
        /\ events' = events @@ (e :> [capacity |-> task[t].capacity,
                                      created_by |-> task[t].user,
                                      created_at |-> Cardinality(DOMAIN events) + 1])
        /\ Set(t, [pc |-> "invalidate_list", event |-> e])
    /\ UNCHANGED <<env_vars, rsvps, cache, broker, requests, up, tokens, notify_vars>>

\* await cache.delete_pattern("events:list:*"); return ev
InvalidateListForEvent(t) ==
    /\ At(t, "create_event", "invalidate_list")
    /\ cache' = cache_delete_pattern("events:list")
    /\ Set(t, [pc |-> "publish", repo |-> "ok",
               evicted |-> deleted_by_pattern("events:list")])
    /\ UNCHANGED <<env_vars, events, rsvps, broker, requests, up, tokens, notify_vars>>

\* EventService.create_event: publish_event("event.created", ...) succeeds
PublishEvent(t) ==
    /\ At(t, "create_event", "publish")
    /\ broker' = Append(broker, [type |-> "event.created", event_id |-> task[t].event,
                                 created_by |-> task[t].user])
    /\ Set(t, [pc |-> "done", resp |-> "200"])
    /\ UNCHANGED <<env_vars, events, rsvps, cache, requests, up, tokens, notify_vars>>

\* ... or raises
PublishEventFails(t) ==
    /\ At(t, "create_event", "publish")
    /\ Set(t, [pc |-> "done", resp |-> "500"])
    /\ UNCHANGED <<env_vars, events, rsvps, cache, broker, requests, up, tokens, notify_vars>>

\* The response is sent, the task is free for the next request.
Return(t) ==
    /\ task[t].pc = "done"
    /\ task' = [task EXCEPT ![t] = IdleTask]
    /\ UNCHANGED <<env_vars, events, rsvps, cache, broker, requests, up, tokens, notify_vars>>

\* ------------------------------------------------------------------- Next
\* The steps of POST /rsvps, GET /events/{id} and GET /events.
RsvpStep(t) ==
    \/ StartCreateRsvp(t)
    \/ SelectEvent(t)
    \/ CountGoing(t)
    \/ Commit(t)
    \/ InvalidateList(t)
    \/ InvalidateDetail(t)
    \/ PublishRsvp(t)
    \/ PublishRsvpFails(t)
    \/ StartGetEvent(t)
    \/ StartListEvents(t)
    \/ CacheGet(t)
    \/ QueryGetEvent(t)
    \/ QueryListEvents(t)
    \/ CacheSet(t)
    \/ Return(t)

\* The steps of POST /events.
EventStep(t) ==
    \/ StartCreateEvent(t)
    \/ CommitEvent(t)
    \/ InvalidateListForEvent(t)
    \/ PublishEvent(t)
    \/ PublishEventFails(t)

Step(t) == RsvpStep(t) \/ EventStep(t)

\* Every handler, interleaved at the awaits.
Next == (\E t \in Tasks : Step(t)) \/ Expire

Spec == Init /\ [][Next]_vars

\* The RSVP and read handlers, interleaved, over the events that exist.
NextRsvp == (\E t \in Tasks : RsvpStep(t)) \/ Expire

SpecRsvp == Init /\ [][NextRsvp]_vars

\* One request at a time: a handler starts only when no other is running.
NoOtherRunning(t) == \A o \in Tasks \ {t} : task[o].pc = "idle"

NextSeq == (\E t \in Tasks : NoOtherRunning(t) /\ Step(t)) \/ Expire

SpecSeq == Init /\ [][NextSeq]_vars

\* The Redis server stops answering, or answers again, between two requests.
Outage ==
    /\ \A t \in Tasks : task[t].pc = "idle"
    /\ up
    /\ up' = FALSE
    /\ UNCHANGED <<env_vars, events, rsvps, cache, broker, task, requests, tokens, notify_vars>>

Recover ==
    /\ \A t \in Tasks : task[t].pc = "idle"
    /\ ~up
    /\ up' = TRUE
    /\ UNCHANGED <<env_vars, events, rsvps, cache, broker, task, requests, tokens, notify_vars>>


\* ------------------------------------------------ the connection registry
\* self.active.get(user_id, [])
ActiveGet(a, u) == IF u \in DOMAIN a THEN a[u] ELSE << >>

\* conns.append(websocket); self.active[user_id] = conns
connect(a, u, s) == (u :> Append(ActiveGet(a, u), s)) @@ a

\* conns.remove(websocket): the first occurrence, when there is one
Remove(conns, s) ==
    IF \E i \in 1..Len(conns) : conns[i] = s
    THEN LET i == CHOOSE k \in 1..Len(conns) :
                      conns[k] = s /\ \A j \in 1..(k - 1) : conns[j] # s
         IN SubSeq(conns, 1, i - 1) \o SubSeq(conns, i + 1, Len(conns))
    ELSE conns

\* disconnect storing the list back whether or not it is empty.
disconnect_KeepsEmptyList(a, u, s) == (u :> Remove(ActiveGet(a, u), s)) @@ a

\* ConnectionManager.disconnect, under the lock
disconnect(a, u, s) ==
    LET conns == Remove(ActiveGet(a, u), s) IN
    IF conns # << >>
    THEN (u :> conns) @@ a
    ELSE [k \in DOMAIN a \ {u} |-> a[k]]

\* websocket_endpoint: the token is an access token of the path's user;
\* manager.connect accepts the websocket and registers it under the lock.
WsConnect(s) ==
    /\ ws[s].state = "free"
    /\ \E u \in Users :
        /\ active' = connect(active, u, s)
        /\ ws' = [ws EXCEPT ![s] = [user |-> u, state |-> "open"]]
    /\ UNCHANGED <<env_vars, events, rsvps, cache, broker, task, requests, up, tokens, users, worker>>

\* websocket.accept() raises: except Exception -> manager.disconnect of a
\* websocket that was never registered
WsAcceptFails(s) ==
    /\ ws[s].state = "free"
    /\ \E u \in Users :
        /\ active' = disconnect(active, u, s)
        /\ ws' = [ws EXCEPT ![s] = [user |-> u, state |-> "refused"]]
    /\ UNCHANGED <<env_vars, events, rsvps, cache, broker, task, requests, up, tokens, users, worker>>

\* The client goes away without the server noticing yet: writes will fail.
ClientDrops(s) ==
    /\ ws[s].state = "open"
    /\ ws' = [ws EXCEPT ![s].state = "dead"]
    /\ UNCHANGED <<env_vars, events, rsvps, cache, broker, task, requests, up, tokens, users, active, worker>>

\* websocket.receive_text() raises WebSocketDisconnect -> manager.disconnect
WsDisconnect(s) ==
    /\ ws[s].state \in {"open", "dead", "closed"}
    /\ active' = disconnect(active, ws[s].user, s)
    /\ ws' = [ws EXCEPT ![s].state = "gone"]
    /\ UNCHANGED <<env_vars, events, rsvps, cache, broker, task, requests, up, tokens, users, worker>>

\* ------------------------------------------------------------ the consumer
Work(fields) == worker' = fields @@ worker

\* run_worker takes the next message of the queue: handle_message starts.
Receive ==
    /\ consumer.pc = "consuming"
    /\ worker.pc = "wait"
    /\ worker.consumed < MaxMessages
    /\ consumer' = [consumer EXCEPT !.raised = FALSE]
    /\ \E typ \in MessageTypes, e \in {SeededEvent}, u \in Users :
           worker' = [IdleWorker EXCEPT
                         !.pc = IF typ = "rsvp.created" THEN "select_ev" ELSE "ack",
                         !.type = typ, !.event_id = e, !.user_id = u,
                         !.consumed = worker.consumed + 1]
    /\ UNCHANGED <<now, publisher, conn_vars, events, rsvps, cache, broker, task, requests, up, tokens, users, active, ws>>

\* ev = select(Event).where(Event.id == event_id) ... first()
SelectEv ==
    /\ worker.pc = "select_ev"
    /\ Work([pc |-> "select_usr",
             ev |-> IF worker.event_id \in DOMAIN events
                    THEN events[worker.event_id].created_by ELSE "none"])
    /\ UNCHANGED <<env_vars, events, rsvps, cache, broker, task, requests, up, tokens, users, active, ws>>

\* usr = select(User).where(User.id == user_id) ... first(); if ev: ...
SelectUsr ==
    /\ worker.pc = "select_usr"
    /\ LET usr == \E row \in users : row.id = worker.user_id IN
       IF worker.ev # "none"
       THEN Work([pc |-> "send", usr |-> usr, target |-> worker.ev,
                  notice |-> "rsvp.created"])
       ELSE Work([pc |-> "ack", usr |-> usr])
    /\ UNCHANGED <<env_vars, events, rsvps, cache, broker, task, requests, up, tokens, users, active, ws>>

\* send_personal_message: conns = self.active.get(str(user_id), []); the loop
\* runs over list(conns)
SendStart ==
    /\ worker.pc = "send"
    /\ LET conns == ActiveGet(active, worker.target) IN
       IF worker.notice = "rsvp.created"
       THEN Work([pc |-> "push", conns |-> conns, owner_conns |-> conns])
       ELSE Work([pc |-> "push", conns |-> conns, user_conns |-> conns])
    /\ UNCHANGED <<env_vars, events, rsvps, cache, broker, task, requests, up, tokens, users, active, ws>>

\* The push the loop attempts on websocket s, and how it ended.
Pushed(s, ok) == [sock |-> s, notice |-> worker.notice, ok |-> ok, was |-> ws[s].state]

\* await ws.send_text(data) succeeds
PushDelivered ==
    /\ worker.pc = "push" /\ worker.conns # << >>
    /\ LET s == Head(worker.conns) IN
        /\ ws[s].state = "open"
        /\ Work([conns |-> Tail(worker.conns),
                 pushes |-> Append(worker.pushes, Pushed(s, TRUE))])
    /\ UNCHANGED <<env_vars, events, rsvps, cache, broker, task, requests, up, tokens, users, active, ws>>

\* A failed write that ends the loop.
PushFails_Aborts ==
    /\ worker.pc = "push" /\ worker.conns # << >>
    /\ LET s == Head(worker.conns) IN
        /\ ws[s].state # "open"
        /\ ws' = [ws EXCEPT ![s].state = IF @ = "gone" THEN "gone" ELSE "closed"]
        /\ Work([conns |-> << >>,
                 pushes |-> Append(worker.pushes, Pushed(s, FALSE))])
    /\ UNCHANGED <<env_vars, events, rsvps, cache, broker, task, requests, up, tokens, users, active>>

\* await ws.send_text(data) raises: except Exception -> await ws.close(), and
\* the loop goes on with the next websocket
PushFails ==
    /\ worker.pc = "push" /\ worker.conns # << >>
    /\ LET s == Head(worker.conns) IN
        /\ ws[s].state # "open"
        /\ ws' = [ws EXCEPT ![s].state = IF @ = "gone" THEN "gone" ELSE "closed"]
        /\ Work([conns |-> Tail(worker.conns),
                 pushes |-> Append(worker.pushes, Pushed(s, FALSE))])
    /\ UNCHANGED <<env_vars, events, rsvps, cache, broker, task, requests, up, tokens, users, active>>

\* handle_message sending the confirmation to the owner as well.
SendReturns_ConfirmsOwner ==
    /\ worker.pc = "push" /\ worker.conns = << >>
    /\ IF worker.notice = "rsvp.created"
       THEN Work([pc |-> "send", target |-> worker.ev,
                  notice |-> "rsvp.confirmation"])
       ELSE Work([pc |-> "ack"])
    /\ UNCHANGED <<env_vars, events, rsvps, cache, broker, task, requests, up, tokens, users, active, ws>>

\* send_personal_message returns: after the owner's notification comes the
\* confirmation to the message's user_id, after that handle_message returns
SendReturns ==
    /\ worker.pc = "push" /\ worker.conns = << >>
    /\ IF worker.notice = "rsvp.created"
       THEN Work([pc |-> "send", target |-> worker.user_id,
                  notice |-> "rsvp.confirmation"])
       ELSE Work([pc |-> "ack"])
    /\ UNCHANGED <<env_vars, events, rsvps, cache, broker, task, requests, up, tokens, users, active, ws>>

\* The body is not JSON, or not an object: json.loads or data.get raises, the
\* except clause of run_worker logs the error.
ReceiveUndecodable ==
    /\ consumer.pc = "consuming"
    /\ worker.pc = "wait"
    /\ worker.consumed < MaxMessages
    /\ worker' = [IdleWorker EXCEPT !.pc = "ack", !.type = "undecodable",
                                    !.consumed = worker.consumed + 1]
    /\ consumer' = [consumer EXCEPT !.raised = TRUE, !.errors = @ + 1]
    /\ UNCHANGED <<now, publisher, conn_vars, events, rsvps, cache, broker, task, requests, up, tokens, users, active, ws>>

\* The exception leaving run_worker: message.process() rejects the message
\* and the worker task ends.
HandleRaises_Propagates ==
    /\ worker.pc \in {"select_ev", "select_usr"}
    /\ Work([pc |-> "wait"])
    /\ consumer' = [consumer EXCEPT !.raised = TRUE, !.rejected = @ + 1,
                                    !.pc = "failed"]
    /\ UNCHANGED <<now, publisher, conn_vars, events, rsvps, cache, broker, task, requests, up, tokens, users, active, ws>>

\* session.execute raises inside handle_message: except Exception as e:
\* logger.error(...), and the message.process() block exits normally.
HandleRaises ==
    /\ worker.pc \in {"select_ev", "select_usr"}
    /\ Work([pc |-> "ack"])
    /\ consumer' = [consumer EXCEPT !.raised = TRUE, !.errors = @ + 1]
    /\ UNCHANGED <<now, publisher, conn_vars, events, rsvps, cache, broker, task, requests, up, tokens, users, active, ws>>

\* message.process() exits: the message is acknowledged
Ack ==
    /\ worker.pc = "ack"
    /\ Work([pc |-> "wait"])
    /\ consumer' = [consumer EXCEPT !.acked = @ + 1]
    /\ UNCHANGED <<now, publisher, conn_vars, events, rsvps, cache, broker, task, requests, up, tokens, users, active, ws>>

\* Rows removed from the tables behind the application's back. The foreign
\* keys keep a user who owns an event or holds an RSVP, and an event that has
\* RSVPs.
DeleteEvent(e) ==
    /\ e \in DOMAIN events
    /\ \A r \in rsvps : r.event_id # e
    /\ events' = [k \in DOMAIN events \ {e} |-> events[k]]
    /\ UNCHANGED <<env_vars, rsvps, cache, broker, task, requests, up, tokens, users, active, ws, worker>>

DeleteUser(u) ==
    /\ \E row \in users : row.id = u
    /\ \A e \in DOMAIN events : events[e].created_by # u
    /\ \A r \in rsvps : r.user_id # u
    /\ users' = {row \in users : row.id # u}
    /\ UNCHANGED <<env_vars, events, rsvps, cache, broker, task, requests, up, tokens, active, ws, worker>>

\* The consumer, the websocket endpoint of every client, and the tables
\* changing under them.
NextNotify ==
    \/ Receive \/ SelectEv \/ SelectUsr \/ SendStart
    \/ PushDelivered \/ PushFails \/ SendReturns \/ Ack
    \/ \E s \in Sockets :
           WsConnect(s) \/ WsAcceptFails(s) \/ ClientDrops(s) \/ WsDisconnect(s)
    \/ \E e \in EventIds : DeleteEvent(e)
    \/ \E u \in Users : DeleteUser(u)

SpecNotify == Init /\ [][NextNotify]_vars

\* ------------------------------------------------- run_worker from its start
Consume(fields) == consumer' = fields @@ consumer

\* The first failed attempt ending run_worker.
ConnectFails_GivesUp ==
    /\ consumer.pc = "connect"
    /\ Consume([pc |-> "failed", errors |-> consumer.errors + 1])
    /\ UNCHANGED <<now, publisher, conn_vars, events, rsvps, cache, broker, task, requests, up, tokens, notify_vars>>

\* connect_robust raises: the error is logged; the last attempt re-raises and
\* the worker task ends, every other one goes to sleep.
ConnectFails ==
    /\ consumer.pc = "connect"
    /\ Consume([pc |-> IF consumer.attempt = max_retries THEN "failed" ELSE "sleep",
                errors |-> consumer.errors + 1])
    /\ UNCHANGED <<now, publisher, conn_vars, events, rsvps, cache, broker, task, requests, up, tokens, notify_vars>>

\* await asyncio.sleep(delay), then the next turn of the for loop
Sleep ==
    /\ consumer.pc = "sleep"
    /\ Consume([pc |-> "connect", attempt |-> consumer.attempt + 1,
                slept |-> consumer.slept + delay])
    /\ UNCHANGED <<now, publisher, conn_vars, events, rsvps, cache, broker, task, requests, up, tokens, notify_vars>>

\* connect_robust returns: break
ConnectSucceeds ==
    /\ consumer.pc = "connect"
    /\ Consume([pc |-> "channel"])
    /\ UNCHANGED <<now, publisher, conn_vars, events, rsvps, cache, broker, task, requests, up, tokens, notify_vars>>

\* channel = await connection.channel()
OpenChannel ==
    /\ consumer.pc = "channel"
    /\ Consume([pc |-> "declare_exchange"])
    /\ UNCHANGED <<now, publisher, conn_vars, events, rsvps, cache, broker, task, requests, up, tokens, notify_vars>>

\* declare_exchange("communityhub.events", ExchangeType.TOPIC, durable=True)
DeclareExchange ==
    /\ consumer.pc = "declare_exchange"
    /\ Consume([pc |-> "declare_queue",
                declared |-> Append(consumer.declared, Topology[1])])
    /\ UNCHANGED <<now, publisher, conn_vars, events, rsvps, cache, broker, task, requests, up, tokens, notify_vars>>

\* declare_queue("communityhub.notifications", durable=True)
DeclareQueue ==
    /\ consumer.pc = "declare_queue"
    /\ Consume([pc |-> "bind",
                declared |-> Append(consumer.declared, Topology[2])])
    /\ UNCHANGED <<now, publisher, conn_vars, events, rsvps, cache, broker, task, requests, up, tokens, notify_vars>>

\* queue.bind(exchange, routing_key="rsvp.*"); async with queue.iterator()
BindQueue ==
    /\ consumer.pc = "bind"
    /\ Consume([pc |-> "consuming",
                declared |-> Append(consumer.declared, Topology[3])])
    /\ UNCHANGED <<now, publisher, conn_vars, events, rsvps, cache, broker, task, requests, up, tokens, notify_vars>>

\* The application as on_startup leaves it: run_worker has just been created.
InitWorker ==
    /\ \E c \in Capacities :
           events = (SeededEvent :> [capacity |-> c, created_by |-> "alice", created_at |-> 1])
    /\ rsvps = {}
    /\ cache = << >>
    /\ broker = << >>
    /\ task = [t \in Tasks |-> IdleTask]
    /\ requests = 0
    /\ up = TRUE
    /\ users = {[id |-> u, email |-> u] : u \in Users}
    /\ active = << >>
    /\ ws = [s \in Sockets |-> FreeSocket]
    /\ worker = IdleWorker
    /\ tokens = [k \in Tokens |-> NoToken]
    /\ now = 0
    /\ consumer = NewConsumer
    /\ InitConn
    /\ publisher = NoPublisher

\* run_worker and the handler of each message, with websockets connecting.
NextWorker ==
    \/ ConnectFails \/ Sleep \/ ConnectSucceeds
    \/ OpenChannel \/ DeclareExchange \/ DeclareQueue \/ BindQueue
    \/ Receive \/ ReceiveUndecodable \/ SelectEv \/ SelectUsr \/ HandleRaises
    \/ SendStart \/ PushDelivered \/ SendReturns \/ Ack
    \/ \E s \in Sockets : WsConnect(s)

SpecWorker == InitWorker /\ [][NextWorker]_vars

\* One request at a time; between two requests the Redis server may go or
\* come back and the event may be deleted under the cache.
AllIdle == \A t \in Tasks : task[t].pc = "idle"

NextOutage ==
    \/ NextSeq
    \/ Outage
    \/ Recover
    \/ AllIdle /\ DeleteEvent(SeededEvent)

SpecOutage == Init /\ [][NextOutage]_vars

\* --------------------------------------------- access tokens and logout
\* f"revoked_token:{token}"
RevokedKey(k) == LiteralKey("revoked_token", k)

\* RedisCache.exists: client.exists(key) > 0, False when the client raises
cache_exists(key) == IF up THEN key \in DOMAIN cache ELSE FALSE

\* AuthService.login: an access token for an existing user
Login ==
    /\ \E k \in Tokens, row \in users :
        /\ tokens[k].state = "unissued"
        /\ tokens' = [tokens EXCEPT ![k] = [NoToken EXCEPT !.user = row.id, !.state = "valid"]]
    /\ UNCHANGED <<env_vars, events, rsvps, cache, broker, task, requests, up, notify_vars>>

\* The exp of the token passes; the TTL of its revocation entry, exp - now,
\* runs out with it.
TokenExpires(k) ==
    /\ tokens[k].state = "valid"
    /\ tokens' = [tokens EXCEPT ![k].state = "expired"]
    /\ cache' = RedisDelete(cache, RevokedKey(k))
    /\ UNCHANGED <<env_vars, events, rsvps, broker, task, requests, up, notify_vars>>

\* GET /auth/me and POST /auth/logout arrive with a token that was issued.
StartMe(t) ==
    \E k \in Tokens :
        /\ tokens[k].state # "unissued"
        /\ Begin(t, [op |-> "me", pc |-> "is_token_revoked", token |-> k])
        /\ UNCHANGED <<env_vars, events, rsvps, cache, broker, up, tokens, notify_vars>>

StartLogout(t) ==
    \E k \in Tokens :
        /\ tokens[k].state # "unissued"
        /\ Begin(t, [op |-> "logout", pc |-> "is_token_revoked", token |-> k])
        /\ UNCHANGED <<env_vars, events, rsvps, cache, broker, up, tokens, notify_vars>>

\* get_current_user: if await is_token_revoked(token): raise 401
IsTokenRevoked(t) ==
    /\ task[t].op \in {"me", "logout"}
    /\ task[t].pc = "is_token_revoked"
    /\ IF cache_exists(RevokedKey(task[t].token))
       THEN Set(t, [pc |-> "done", resp |-> RevokedError])
       ELSE Set(t, [pc |-> "decode_token"])
    /\ UNCHANGED <<env_vars, events, rsvps, cache, broker, requests, up, tokens, notify_vars>>

\* get_current_user: decode_token, the type and sub checks, the user lookup
DecodeToken(t) ==
    /\ task[t].op \in {"me", "logout"}
    /\ task[t].pc = "decode_token"
    /\ LET k == task[t].token IN
       IF tokens[k].state # "valid" \/ ~\E row \in users : row.id = tokens[k].user
       THEN Set(t, [pc |-> "done", resp |-> CredentialsError])
       ELSE IF task[t].op = "me"
            THEN Set(t, [pc |-> "done", resp |-> "200", user |-> tokens[k].user])
            ELSE Set(t, [pc |-> "revoke_token", user |-> tokens[k].user])
    /\ UNCHANGED <<env_vars, events, rsvps, cache, broker, requests, up, tokens, notify_vars>>

\* AuthService.logout -> revoke_token: the entry is set when the token decodes
\* and its ttl is positive; every exception is swallowed; the route answers 204
RevokeToken(t) ==
    /\ At(t, "logout", "revoke_token")
    /\ LET k == task[t].token IN
        /\ cache' = IF tokens[k].state = "valid"
                    THEN cache_set(RevokedKey(k), [kind |-> "true"],
                                   ACCESS_TOKEN_EXPIRE_MINUTES * SecondsPerMinute)
                    ELSE cache
        /\ tokens' = [tokens EXCEPT ![k].logged_out = TRUE]
    /\ Set(t, [pc |-> "done", resp |-> "204"])
    /\ UNCHANGED <<env_vars, events, rsvps, broker, requests, up, notify_vars>>

AuthStep(t) ==
    \/ StartMe(t)
    \/ StartLogout(t)
    \/ IsTokenRevoked(t)
    \/ DecodeToken(t)
    \/ RevokeToken(t)
    \/ Return(t)

\* The authenticated requests one at a time, tokens being issued and running
\* out, Redis coming and going between requests.
NextAuth ==
    \/ \E t \in Tasks : NoOtherRunning(t) /\ AuthStep(t)
    \/ Login
    \/ \E k \in Tokens : TokenExpires(k)
    \/ Outage
    \/ Recover

SpecAuth == Init /\ [][NextAuth]_vars

\* ------------------------------------------- POST /auth/register: register
StartRegister(t) ==
    \E e \in Emails, p \in {"strong", "weak"} :
        /\ Begin(t, [op |-> "register", pc |-> "validate_password",
                     email |-> e, password |-> p])
        /\ UNCHANGED <<env_vars, events, rsvps, cache, broker, up, tokens, notify_vars>>

\* validate_password(payload.password): ValueError -> 400
ValidatePassword(t) ==
    /\ At(t, "register", "validate_password")
    /\ IF task[t].password = "weak"
       THEN Set(t, [pc |-> "done", resp |-> PasswordError])
       ELSE Set(t, [pc |-> "get_user_by_email"])
    /\ UNCHANGED <<env_vars, events, rsvps, cache, broker, requests, up, tokens, notify_vars>>

\* existing = await db_get_user_by_email(...); if existing: raise 400
GetUserByEmail(t) ==
    /\ At(t, "register", "get_user_by_email")
    /\ IF \E row \in users : row.email = task[t].email
       THEN Set(t, [pc |-> "done", resp |-> EmailTakenError])
       ELSE Set(t, [pc |-> "create_user"])
    /\ UNCHANGED <<env_vars, events, rsvps, cache, broker, requests, up, tokens, notify_vars>>

\* create_user: db.add(user); await db.commit(). users.email is unique: the
\* commit of a second row with the address raises IntegrityError, which
\* nothing between create_user and the route catches.
CreateUser(t) ==
    /\ At(t, "register", "create_user")
    /\ IF \E row \in users : row.email = task[t].email
       THEN /\ Set(t, [pc |-> "done", resp |-> "500"])
            /\ UNCHANGED users
       ELSE \E id \in NewUserIds \ {row.id : row \in users} :
                LET user == [id |-> id, email |-> task[t].email] IN
                /\ users' = users \cup {user}
                /\ Set(t, [pc |-> "done", result |-> user, resp |-> "200"])
    /\ UNCHANGED <<env_vars, events, rsvps, cache, broker, requests, up, tokens, active, ws, worker>>

RegisterStep(t) ==
    \/ StartRegister(t)
    \/ ValidatePassword(t)
    \/ GetUserByEmail(t)
    \/ CreateUser(t)
    \/ Return(t)

\* The registrations, interleaved at their awaits.
NextRegister == \E t \in Tasks : RegisterStep(t)

SpecRegister == Init /\ [][NextRegister]_vars

\* ------------------------------------------ reads over the tables as found
\* The position of user u among the users P who hold a row.
UserOrder == <<"alice", "bob">>

Rank(u, P) ==
    Cardinality({v \in P : \E i, j \in DOMAIN UserOrder :
                               UserOrder[i] = v /\ UserOrder[j] = u /\ i < j}) + 1

\* The rsvps tables create_rsvp can have left for the seeded event: any users
\* with any statuses, the going rows possibly more than the capacity (C1).
RsvpTables ==
    {{[id |-> Rank(u, P), user_id |-> u, event_id |-> SeededEvent, status |-> f[u]] : u \in P} :
        P \in SUBSET Users, f \in [Users -> Statuses]}

InitSpots ==
    /\ \E c \in Capacities :
           events = (SeededEvent :> [capacity |-> c, created_by |-> "alice", created_at |-> 1])
    /\ rsvps \in RsvpTables
    /\ cache = << >>
    /\ broker = << >>
    /\ task = [t \in Tasks |-> IdleTask]
    /\ requests = 0
    /\ up = TRUE
    /\ users = {[id |-> u, email |-> u] : u \in Users}
    /\ active = << >>
    /\ ws = [s \in Sockets |-> FreeSocket]
    /\ worker = IdleWorker
    /\ tokens = [k \in Tokens |-> NoToken]
    /\ InitEnv

\* GET /events/{id} and GET /events
ReadStep(t) ==
    \/ StartGetEvent(t)
    \/ StartListEvents(t)
    \/ CacheGet(t)
    \/ QueryGetEvent(t)
    \/ QueryListEvents(t)
    \/ CacheSet(t)
    \/ Return(t)

NextSpots == (\E t \in Tasks : ReadStep(t)) \/ Expire

SpecSpots == InitSpots /\ [][NextSpots]_vars

\* ------------------------------------ GET /events: list_events_paginated
\* The key count_events(db, <no filter>) is cached under.
CountKey ==
    CacheKey("events:count", <<>>,
             <<"category", "None", "created_by", "None", "search", "None",
               "starts_after", "None", "starts_before", "None">>)

\* count_events' body with no filter: select(func.count(Event.id))
count_events_query == [kind |-> "count", n |-> Cardinality(DOMAIN events)]

StartListPaginated(t) ==
    \E l \in ListLimits :
        /\ Begin(t, [op |-> "list_events_paginated", pc |-> "count_get", limit |-> l])
        /\ UNCHANGED <<env_vars, events, rsvps, cache, broker, up, tokens, notify_vars>>

\* cached.wrapper of count_events: cache.get; on a hit total is the cached
\* count and list_events_paginated goes on with list_events
CountCacheGet(t) ==
    /\ At(t, "list_events_paginated", "count_get")
    /\ LET cached_value == cache_get(CountKey) IN
       IF cached_value # NoValue
       THEN Set(t, [op |-> "list_events", pc |-> "cache_get", total |-> cached_value.n])
       ELSE Set(t, [pc |-> "count_query"])
    /\ UNCHANGED <<env_vars, events, rsvps, cache, broker, requests, up, tokens, notify_vars>>

\* cached.wrapper of count_events on a miss: result = await func(...)
CountQuery(t) ==
    /\ At(t, "list_events_paginated", "count_query")
    /\ Set(t, [pc |-> "count_set", total |-> count_events_query.n])
    /\ UNCHANGED <<env_vars, events, rsvps, cache, broker, requests, up, tokens, notify_vars>>

\* cache.set(cache_key, result, expire); total is returned and
\* list_events_paginated goes on with list_events
CountCacheSet(t) ==
    /\ At(t, "list_events_paginated", "count_set")
    /\ cache' = cache_set(CountKey, [kind |-> "count", n |-> task[t].total], CacheTTL)
    /\ Set(t, [op |-> "list_events", pc |-> "cache_get"])
    /\ UNCHANGED <<env_vars, events, rsvps, broker, requests, up, tokens, notify_vars>>

\* The cache after a GET /events?per_page=20 was answered from the tables.
WarmListing ==
    RedisSet(RedisSet(<< >>, CountKey, count_events_query, CacheTTL),
             ListKey("20"), list_events_query("20"), CacheTTL)

\* The server with a cold cache, or with the entries of an earlier listing.
InitListing ==
    /\ \E c \in Capacities :
           events = (SeededEvent :> [capacity |-> c, created_by |-> "alice", created_at |-> 1])
    /\ rsvps = {}
    /\ InitEnv
    /\ cache \in {<< >>, WarmListing}
    /\ broker = << >>
    /\ task = [t \in Tasks |-> IdleTask]
    /\ requests = 0
    /\ up = TRUE
    /\ users = {[id |-> u, email |-> u] : u \in Users}
    /\ active = << >>
    /\ ws = [s \in Sockets |-> FreeSocket]
    /\ worker = IdleWorker
    /\ tokens = [k \in Tokens |-> NoToken]

\* GET /events and POST /events
ListingStep(t) ==
    \/ StartListPaginated(t)
    \/ CountCacheGet(t)
    \/ CountQuery(t)
    \/ CountCacheSet(t)
    \/ CacheGet(t)
    \/ QueryListEvents(t)
    \/ CacheSet(t)
    \/ StartCreateEvent(t)
    \/ CommitEvent(t)
    \/ InvalidateListForEvent(t)
    \/ PublishEvent(t)
    \/ PublishEventFails(t)
    \/ Return(t)

\* One request at a time.
NextListing == \E t \in Tasks : NoOtherRunning(t) /\ ListingStep(t)

SpecListing == InitListing /\ [][NextListing]_vars

\* ------------------------------------------ publish_event, step by step
\* _connection and not _connection.is_closed
Usable(p) == p.connection # None /\ p.connection \notin p.closed

\* get_rabbit_connection: the cached pair is returned when the connection is
\* usable, otherwise connect_robust is awaited.
GetConnection(t) ==
    /\ At(t, "create_rsvp", "publish")
    /\ IF Usable(publisher)
       THEN Set(t, [pc |-> "declare", conn |-> publisher.connection,
                    chan |-> publisher.channel])
       ELSE Set(t, [pc |-> "connect_robust"])
    /\ UNCHANGED <<env_vars, events, rsvps, cache, broker, requests, up, tokens, notify_vars>>

\* _connection = await connect_robust(...) returns a new connection
ConnectReturns(t) ==
    /\ At(t, "create_rsvp", "connect_robust")
    /\ publisher' = [publisher EXCEPT !.connection = publisher.opened + 1,
                                      !.opened = @ + 1]
    /\ Set(t, [pc |-> "open_channel", conn |-> publisher.opened + 1])
    /\ UNCHANGED <<now, consumer, conn_vars, events, rsvps, cache, broker, requests, up, tokens, notify_vars>>

\* connect_robust raises: publish_event raises, the request ends in a 500
ConnectRaises(t) ==
    /\ At(t, "create_rsvp", "connect_robust")
    /\ Set(t, [pc |-> "done", resp |-> "500"])
    /\ UNCHANGED <<env_vars, events, rsvps, cache, broker, requests, up, tokens, notify_vars>>

\* _channel = await _connection.channel(): the channel was asked of the
\* connection this call had just stored; return _connection, _channel
ChannelReturns(t) ==
    /\ At(t, "create_rsvp", "open_channel")
    /\ publisher' = [publisher EXCEPT !.channel = task[t].conn]
    /\ Set(t, [pc |-> "declare", chan |-> task[t].conn])
    /\ UNCHANGED <<now, consumer, conn_vars, events, rsvps, cache, broker, requests, up, tokens, notify_vars>>

\* channel.declare_exchange and exchange.publish: the message is on the
\* exchange when the channel exists and its connection is open; a None
\* channel or a closed connection raises and the request ends in a 500
DeclareAndPublish(t) ==
    /\ At(t, "create_rsvp", "declare")
    /\ IF task[t].chan # None /\ task[t].chan \notin publisher.closed
       THEN /\ broker' = Append(broker, RsvpCreated(task[t].result))
            /\ Set(t, [pc |-> "done", resp |-> "200"])
       ELSE /\ broker' = broker
            /\ Set(t, [pc |-> "done", resp |-> "500"])
    /\ UNCHANGED <<env_vars, events, rsvps, cache, requests, up, tokens, notify_vars>>

\* The cached connection is closed.
ConnectionCloses ==
    /\ Usable(publisher)
    /\ publisher' = [publisher EXCEPT !.closed = @ \cup {publisher.connection}]
    /\ UNCHANGED <<now, consumer, conn_vars, events, rsvps, cache, broker, task, requests, up, tokens, notify_vars>>

\* POST /rsvps with publish_event in its steps.
PublisherStep(t) ==
    \/ StartCreateRsvp(t)
    \/ SelectEvent(t)
    \/ CountGoing(t)
    \/ Commit(t)
    \/ InvalidateList(t)
    \/ InvalidateDetail(t)
    \/ GetConnection(t)
    \/ ConnectReturns(t)
    \/ ConnectRaises(t)
    \/ ChannelReturns(t)
    \/ DeclareAndPublish(t)
    \/ Return(t)

NextPublisher == (\E t \in Tasks : PublisherStep(t)) \/ ConnectionCloses

SpecPublisher == Init /\ [][NextPublisher]_vars

\* ------------------------------------- the websocket endpoint, step by step
\* The tokens a client may put in the query: one that does not decode (bad
\* signature, expired, no sub), and refresh and access tokens of each user.
WsTokens ==
    {NoWsToken} \cup {[decodes |-> TRUE, type |-> ty, sub |-> u] :
                          ty \in {"access", "refresh"}, u \in Users}

\* The checks without the comparison of sub with the path.
TokenAccepted_IgnoresSub(tok, u) == tok.decodes /\ tok.type = "access"

\* websocket_endpoint: decode_token returns, type is 'access', and
\* str(sub) is the user_id of the path.
TokenAccepted(tok, u) == tok.decodes /\ tok.type = "access" /\ tok.sub = u

Reg(s, fields) == reg' = [reg EXCEPT ![s] = fields @@ reg[s]]

\* A check fails: websocket.close(code=1008), and the endpoint returns.
WsReject(s) ==
    /\ ws[s].state = "free"
    /\ \E u \in Users, tok \in WsTokens :
        /\ ~TokenAccepted(tok, u)
        /\ ws' = [ws EXCEPT ![s] = [user |-> u, state |-> "rejected"]]
        /\ Reg(s, [token |-> tok])
    /\ UNCHANGED <<now, publisher, consumer, lock, events, rsvps, cache, broker, task, requests, up, tokens, users, active, worker>>

\* The checks pass: manager.connect, await websocket.accept()
WsAccept(s) ==
    /\ ws[s].state = "free"
    /\ \E u \in Users, tok \in WsTokens :
        /\ TokenAccepted(tok, u)
        /\ ws' = [ws EXCEPT ![s] = [user |-> u, state |-> "open"]]
        /\ Reg(s, [pc |-> "acquire", op |-> "connect", token |-> tok])
    /\ UNCHANGED <<now, publisher, consumer, lock, events, rsvps, cache, broker, task, requests, up, tokens, users, active, worker>>

\* The receive loop ends, by WebSocketDisconnect or by another exception:
\* manager.disconnect
LoopEnds(s) ==
    /\ ws[s].state \in {"open", "dead", "closed"}
    /\ reg[s].pc = "idle" /\ reg[s].done = "connected"
    /\ Reg(s, [pc |-> "acquire", op |-> "disconnect"])
    /\ UNCHANGED <<now, publisher, consumer, lock, events, rsvps, cache, broker, task, requests, up, tokens, notify_vars>>

\* The lock taken whether or not it is held.
Acquire_NoWait(s) ==
    /\ reg[s].pc = "acquire"
    /\ lock' = s
    /\ Reg(s, [pc |-> "read"])
    /\ UNCHANGED <<now, publisher, consumer, events, rsvps, cache, broker, task, requests, up, tokens, notify_vars>>

\* async with self.lock: the endpoint goes on when the lock is free
Acquire(s) ==
    /\ reg[s].pc = "acquire"
    /\ lock = "none"
    /\ lock' = s
    /\ Reg(s, [pc |-> "read"])
    /\ UNCHANGED <<now, publisher, consumer, events, rsvps, cache, broker, task, requests, up, tokens, notify_vars>>

\* conns = self.active.get(user_id, [])
LockedRead(s) ==
    /\ reg[s].pc = "read"
    /\ Reg(s, [pc |-> "write", conns |-> ActiveGet(active, ws[s].user)])
    /\ UNCHANGED <<now, publisher, consumer, lock, events, rsvps, cache, broker, task, requests, up, tokens, notify_vars>>

\* The map as the endpoint of s writes it back: the list it read, under its
\* user.
Seen(s) == (ws[s].user :> reg[s].conns) @@ active

\* connect: conns.append(websocket); self.active[user_id] = conns
\* disconnect: conns.remove(websocket); the list stored back, or the key popped
LockedWrite(s) ==
    /\ reg[s].pc = "write"
    /\ IF reg[s].op = "connect"
       THEN /\ active' = connect(Seen(s), ws[s].user, s)
            /\ Reg(s, [pc |-> "release", done |-> "connected"])
       ELSE /\ active' = disconnect(Seen(s), ws[s].user, s)
            /\ Reg(s, [pc |-> "release", done |-> "disconnected"])
    /\ UNCHANGED <<now, publisher, consumer, lock, events, rsvps, cache, broker, task, requests, up, tokens, users, ws, worker>>

\* The async with block exits; after disconnect the endpoint returns.
Release(s) ==
    /\ reg[s].pc = "release"
    /\ lock' = "none"
    /\ Reg(s, [pc |-> "idle"])
    /\ ws' = IF reg[s].op = "disconnect"
             THEN [ws EXCEPT ![s].state = "gone"] ELSE ws
    /\ UNCHANGED <<now, publisher, consumer, events, rsvps, cache, broker, task, requests, up, tokens, users, active, worker>>

\* The endpoints of the websockets, and the consumer fanning messages out.
NextRegistry ==
    \/ \E s \in Sockets :
           \/ WsReject(s) \/ WsAccept(s) \/ ClientDrops(s) \/ LoopEnds(s)
           \/ Acquire(s) \/ LockedRead(s) \/ LockedWrite(s) \/ Release(s)
    \/ Receive \/ SelectEv \/ SelectUsr \/ SendStart
    \/ PushDelivered \/ PushFails \/ SendReturns \/ Ack

SpecRegistry == Init /\ [][NextRegistry]_vars

\* ------------------------------------------------- the cache under its clock
\* The clock is observed every CacheTTL / TicksPerTTL seconds.
TicksPerTTL == 2

TickSeconds == CacheTTL \div TicksPerTTL

\* The ticks during which requests still arrive.
MaxTicks == 2

\* The keys of c whose time to live has run out at the given time.
Expired(c, time) ==
    {k \in DOMAIN c : c[k].expire # None /\ c[k].at + c[k].expire <= time}

\* The entries that will expire.
Expiring == {k \in DOMAIN cache : cache[k].expire # None}

\* Time passes: Redis drops every entry whose time to live has run out.
Tick ==
    /\ now < MaxTicks * TickSeconds \/ Expiring # {}
    /\ now' = now + TickSeconds
    /\ cache' = [k \in DOMAIN cache \ Expired(cache, now') |-> cache[k]]
    /\ UNCHANGED <<consumer, conn_vars, publisher, events, rsvps, broker, task, requests, up, tokens, notify_vars>>

\* The keys earlier reads of the seeded event have stored.
WarmKeys == {DetailKey(SeededEvent), ListKey("20")}

\* What cached.wrapper stored under key k on its miss.
Warmed(c, k) ==
    RedisSet(c, k,
             IF k.prefix = "events:detail"
             THEN get_event_query(SeededEvent) ELSE list_events_query("20"),
             CacheTTL)

\* The server when earlier reads have left their entries in the cache.
InitTtl ==
    /\ \E c \in Capacities :
           events = (SeededEvent :> [capacity |-> c, created_by |-> "alice", created_at |-> 1])
    /\ rsvps = {}
    /\ InitEnv
    /\ cache \in {<< >>, Warmed(<< >>, DetailKey(SeededEvent)),
                  Warmed(<< >>, ListKey("20")),
                  Warmed(Warmed(<< >>, DetailKey(SeededEvent)), ListKey("20"))}
    /\ broker = << >>
    /\ task = [t \in Tasks |-> IdleTask]
    /\ requests = 0
    /\ up = TRUE
    /\ users = {[id |-> u, email |-> u] : u \in Users}
    /\ active = << >>
    /\ ws = [s \in Sockets |-> FreeSocket]
    /\ worker = IdleWorker
    /\ tokens = [k \in Tokens |-> NoToken]

NextTtl == (\E t \in Tasks : RsvpStep(t)) \/ Tick

\* Time does not stop.
SpecTtl == InitTtl /\ [][NextTtl]_vars /\ WF_vars(Tick)

\* =================================================================== claims
\* The handler of task t has inserted its RSVP row.
Inserted(t) ==
    /\ task[t].op = "create_rsvp"
    /\ task[t].pc \in {"invalidate_list", "invalidate_detail", "publish", "done"}
    /\ task[t].result # NoValue

\* The rows of event e with status going, counted from the table itself.
GoingRows(e) == {r \in rsvps : r.event_id = e /\ r.status = "going"}

Limited(e) == e \in DOMAIN events /\ events[e].capacity # None /\ events[e].capacity > 0

\* C1: for every event with capacity C > 0 the number of persisted rows with
\* status going never exceeds C, under any interleaving of create_rsvp calls.
C1_GoingNeverExceedsCapacity ==
    \A e \in DOMAIN events :
        Limited(e) => Cardinality(GoingRows(e)) <= events[e].capacity

\* C2: at most one row per (user, event) pair in every reachable state; of two
\* create_rsvp calls for one pair that overlap on an event with free capacity
\* (the user holding no row when they arrived) exactly one inserts its row and
\* the other is refused.
SamePair(a, b) ==
    /\ a # b
    /\ task[a].op = "create_rsvp" /\ task[b].op = "create_rsvp"
    /\ task[a].user = task[b].user /\ task[a].event = task[b].event

Decided(t) == Inserted(t) \/ task[t].repo # "none"

FreeFor(u, e) ==
    Limited(e) => Cardinality({r \in GoingRows(e) : r.user_id # u}) < events[e].capacity

C2_OneRsvpPerPair ==
    /\ \A r1, r2 \in rsvps :
           r1.user_id = r2.user_id /\ r1.event_id = r2.event_id => r1 = r2
    /\ \A a, b \in Tasks :
           ( /\ SamePair(a, b)
             /\ ~task[a].held /\ ~task[b].held
             /\ Decided(a) /\ Decided(b)
             /\ task[a].repo # NotFoundError /\ task[b].repo # NotFoundError
             /\ FreeFor(task[a].user, task[a].event) )
           => /\ Inserted(a) # Inserted(b)
              /\ ~Inserted(a) => task[a].repo \in {DuplicateError, CapacityError}

C2_Witness ==
    \E a, b \in Tasks :
        /\ SamePair(a, b)
        /\ ~task[a].held /\ ~task[b].held
        /\ Inserted(b) /\ task[a].repo = DuplicateError


\* The going rows of t's event that are not t's own row: what t's request found.
GoingBefore(t) ==
    Cardinality({r \in GoingRows(task[t].event) : r # task[t].result})

\* A create_rsvp with status going on a limited event whose repository call
\* has ended.
GoingOnLimited(t) ==
    /\ task[t].op = "create_rsvp" /\ task[t].status = "going"
    /\ Decided(t) /\ task[t].pc \in {"publish", "done"}
    /\ Limited(task[t].event)
    /\ task[t].repo # NotFoundError

\* C3 as stated: with requests running one after another, a going request on
\* an event with capacity C > 0 gets the capacity error exactly when the going
\* count is already >= C, and is accepted otherwise.
C3_AcceptedUnlessFull ==
    \A t \in Tasks :
        GoingOnLimited(t) =>
            /\ task[t].repo = CapacityError <=> GoingBefore(t) >= events[task[t].event].capacity
            /\ task[t].repo # CapacityError => task[t].repo = "ok"

\* C3 amended: ... and otherwise goes on to the insert, which is accepted
\* unless the user already holds an RSVP for the event, when it is refused
\* with the duplicate error.
C3_CapacityErrorIffFull ==
    \A t \in Tasks :
        GoingOnLimited(t) =>
            /\ task[t].repo = CapacityError <=> GoingBefore(t) >= events[task[t].event].capacity
            /\ task[t].repo # CapacityError =>
                   IF task[t].held THEN task[t].repo = DuplicateError /\ ~Inserted(t)
                   ELSE task[t].repo = "ok" /\ task[t].result \in rsvps

\* Capacity 1: the first going request was accepted, the second one, of
\* another user, is refused with the capacity error.
C3_Witness ==
    \E t \in Tasks :
        /\ GoingOnLimited(t) /\ ~task[t].held
        /\ task[t].repo = CapacityError
        /\ GoingBefore(t) = events[task[t].event].capacity
        /\ \A r \in GoingRows(task[t].event) : r.user_id # task[t].user

\* C4 as stated: a create_rsvp by a user who already holds a row for the event
\* fails with the duplicate error, whatever the capacity, fill level and status.
C4_HolderGetsDuplicate ==
    \A t \in Tasks :
        task[t].op = "create_rsvp" /\ task[t].held /\ task[t].pc = "done"
            => task[t].repo = DuplicateError

\* C4 amended: such a call always fails and inserts nothing; it fails with the
\* duplicate error (409), except that a going request on an event with
\* capacity > 0 whose going count has reached the capacity fails with the
\* capacity error (400), the check that runs first. The loser of two
\* overlapping creations for one pair gets the same two errors.
C4_HolderIsRefused ==
    /\ \A t \in Tasks :
        task[t].op = "create_rsvp" /\ task[t].held /\ task[t].pc = "done"
            => /\ ~Inserted(t)
               /\ task[t].repo \in {DuplicateError, CapacityError}
               /\ task[t].resp = task[t].repo
               /\ task[t].repo = CapacityError =>
                      /\ task[t].status = "going" /\ Limited(task[t].event)
                      /\ Cardinality(GoingRows(task[t].event)) >= events[task[t].event].capacity
               /\ task[t].status # "going" \/ ~Limited(task[t].event)
                      => task[t].repo = DuplicateError
    /\ \A a, b \in Tasks :
        SamePair(a, b) /\ Inserted(a) /\ task[b].pc = "done" /\ task[b].repo # NotFoundError
            => ~Inserted(b) /\ task[b].repo \in {DuplicateError, CapacityError}

\* A holder asked again with another status on a full event and got the 409.
C4_Witness ==
    \E t \in Tasks :
        /\ task[t].op = "create_rsvp" /\ task[t].held /\ task[t].pc = "done"
        /\ task[t].repo = DuplicateError /\ task[t].status # "going"
        /\ Limited(task[t].event)
        /\ Cardinality(GoingRows(task[t].event)) = events[task[t].event].capacity


\* C5: only going rows count against capacity: a create_rsvp with status
\* interested or cancelled is never refused for capacity and adds no going row,
\* and a going request is refused for capacity only when the going rows alone
\* have reached the capacity.
C5_OnlyGoingCounts ==
    \A t \in Tasks :
        task[t].op = "create_rsvp" =>
            /\ task[t].status # "going" =>
                   /\ task[t].repo # CapacityError
                   /\ task[t].result \notin GoingRows(task[t].event)
            /\ task[t].repo = CapacityError =>
                   Cardinality(GoingRows(task[t].event)) >= events[task[t].event].capacity

\* Capacity 1, no going row: A's interested row is in, then B's going row is
\* accepted as well.
C5_Witness ==
    \E e \in DOMAIN events, a, b \in rsvps :
        /\ events[e].capacity = 1
        /\ a.event_id = e /\ b.event_id = e
        /\ a.status = "interested" /\ b.status = "going" /\ a.id < b.id
        /\ \E t \in Tasks : task[t].result = b /\ task[t].repo = "ok"

\* The event dicts a read returned or the cache holds.
EventDictsOf(value) ==
    IF value.kind = "event" THEN {value}
    ELSE IF value.kind = "list" THEN {value.items[i] : i \in DOMAIN value.items}
    ELSE {}

ReportedDicts ==
    UNION ({EventDictsOf(cache[k].value) : k \in DOMAIN cache}
           \cup {EventDictsOf(task[t].result) : t \in {x \in Tasks : task[x].op \in {"get_event", "list_events"}}})

\* C6: an event whose capacity is 0 or unset is unlimited: no create_rsvp on it
\* is refused with the capacity error, however many going rows it has, and its
\* available_spots is reported as null.
C6_ZeroOrUnsetIsUnlimited ==
    /\ \A t \in Tasks :
           ( /\ task[t].op = "create_rsvp"
             /\ task[t].event \in DOMAIN events
             /\ events[task[t].event].capacity \in {None, 0} )
           => /\ task[t].repo # CapacityError
              /\ task[t].pc # "count"
    /\ \A d \in ReportedDicts :
           d.capacity \in {None, 0} => d.available_spots = None

\* An event of capacity 0 that has a going row, and its detail read back with
\* available_spots null.
C6_Witness ==
    \E e \in DOMAIN events :
        /\ events[e].capacity = 0
        /\ Cardinality(GoingRows(e)) >= 1
        /\ \E t \in Tasks :
               /\ task[t].op = "get_event" /\ task[t].pc = "done" /\ task[t].event = e
               /\ task[t].result.available_spots = None

\* C7: create_rsvp for an event id that does not exist fails with the 404
\* 'Event not found' before any capacity read or insert: it never reaches the
\* count or the commit and leaves no row.
C7_MissingEventIsNotFound ==
    \A t \in Tasks :
        task[t].op = "create_rsvp" =>
            /\ task[t].pc \notin {"idle", "select_event"} /\ task[t].event \notin DOMAIN events
                   => /\ task[t].pc = "done"
                      /\ task[t].repo = NotFoundError /\ task[t].resp = NotFoundError
            /\ task[t].repo = NotFoundError
                   => task[t].result = NoValue /\ task[t].capacity = None
    /\ \A r \in rsvps : r.event_id \in DOMAIN events

C7_Witness ==
    \E t \in Tasks :
        /\ task[t].op = "create_rsvp" /\ task[t].pc = "done"
        /\ task[t].event \notin DOMAIN events
        /\ task[t].repo = NotFoundError


\* A create_rsvp whose publish_event raised: the only way it ends in a 500.
PublishFailed(t) ==
    task[t].op = "create_rsvp" /\ task[t].pc = "done" /\ task[t].resp = "500"

\* C8: when publishing rsvp.created fails after the commit, the row is not
\* rolled back: it stays in the table, counts toward the going count when its
\* status is going, and a later RSVP of that user for that event is refused.
C8_RowSurvivesPublishFailure ==
    \A t \in Tasks :
        PublishFailed(t) =>
            /\ task[t].result \in rsvps
            /\ task[t].status = "going" => task[t].result \in GoingRows(task[t].event)
            /\ \A o \in Tasks :
                   SamePair(t, o) /\ task[o].held /\ task[o].pc = "done" => ~Inserted(o)

\* The publish failed, the going row is there, and the same user's next
\* request for the event was refused as a duplicate.
C8_Witness ==
    \E t, o \in Tasks :
        /\ PublishFailed(t) /\ task[t].status = "going"
        /\ task[t].result \in GoingRows(task[t].event)
        /\ SamePair(t, o) /\ task[o].held /\ task[o].repo = DuplicateError

\* C9: when publish_event fails after the commit, RSVPService.create_rsvp still
\* returns the created RSVP to the caller: every request whose repository call
\* succeeded is answered with the RSVP.
C9_PublishFailureStillReturnsRsvp ==
    \A t \in Tasks :
        task[t].op = "create_rsvp" /\ task[t].pc = "done" /\ task[t].repo = "ok"
            => task[t].resp = "200"

\* C10: once create_rsvp for event E has returned, the detail entry of E that
\* get_event cached before the write is gone, so the next get_event(E) misses
\* and computes available_spots from the new going count. Checked with one
\* request running at a time, so that every entry present was cached before
\* the write.
C10_DetailEntryEvicted ==
    \A t \in Tasks :
        task[t].op = "create_rsvp" /\ task[t].repo = "ok"
            => DetailKey(task[t].event) \notin DOMAIN cache

\* The create_rsvp or create_event call of task t is past its
\* delete_pattern("events:list:*").
Invalidated(t) ==
    /\ task[t].op \in {"create_rsvp", "create_event"}
    /\ task[t].repo = "ok" \/ task[t].pc = "invalidate_detail"

\* C11 as stated: after a successful create_rsvp or create_event, every
\* events:list:* entry written before the commit has been evicted by the time
\* the call returns. With one request running at a time every entry present
\* after the commit was written before it.
C11_ListEntriesEvicted ==
    \A t \in Tasks : Invalidated(t) => RedisKeys(cache, "events:list") = {}

\* C11, amended: the entries are evicted when the Redis server answered the
\* delete_pattern of the call; when it did not, the error is swallowed and the
\* call succeeds with the entries left in place.
C11_ListEntriesEvictedWhenUp ==
    \A t \in Tasks :
        up /\ Invalidated(t) => RedisKeys(cache, "events:list") = {}

\* A create call answered 200 after its delete_pattern removed a list entry.
C11_Witness ==
    \E t \in Tasks :
        /\ up /\ Invalidated(t)
        /\ task[t].pc = "done" /\ task[t].resp = "200"
        /\ task[t].evicted >= 1
        /\ RedisKeys(cache, "events:list") = {}

\* What the function under the decorator returns from the tables now.
FreshResult(t) ==
    IF task[t].op = "get_event"
    THEN get_event_query(task[t].event)
    ELSE list_events_query(task[t].limit)

\* C12: a cache failure never propagates. While Redis does not answer, get is
\* a miss, set and delete store and remove nothing, delete_pattern returns 0,
\* none of them raises, and so a cached read answers with what the query
\* returns (as it would on an empty cache), create_rsvp goes on to return its
\* row and create_event its event. Checked with one request running at a
\* time, Redis being down for the whole request.
C12_CacheFailuresDoNotPropagate ==
    \A t \in Tasks :
        ~up =>
            /\ task[t].op \in {"get_event", "list_events"}
               /\ task[t].pc \in {"cache_set", "done"}
                   => task[t].result = FreshResult(t)
            /\ task[t].op \in {"get_event", "list_events"} /\ task[t].pc = "done"
                   => task[t].resp = ReadResponse(t, FreshResult(t))
            /\ task[t].op = "create_rsvp" /\ task[t].pc = "done" /\ Inserted(t)
                   => /\ task[t].repo = "ok"
                      /\ task[t].evicted = 0
                      /\ task[t].result \in rsvps
                      /\ task[t].resp = "200" \/ PublishFailed(t)
            /\ task[t].op = "create_event" /\ task[t].pc = "done"
                   => /\ task[t].repo = "ok"
                      /\ task[t].evicted = 0
                      /\ task[t].event \in DOMAIN events

\* Redis is down and holds a list entry; create_rsvp has returned its row.
C12_Witness ==
    \E t \in Tasks :
        /\ ~up
        /\ task[t].op = "create_rsvp" /\ task[t].pc = "done"
        /\ task[t].resp = "200" /\ task[t].result \in rsvps
        /\ RedisKeys(cache, "events:list") # {}

\* The consumer has handled an rsvp.created message whose event it found.
Notified ==
    /\ worker.pc \in {"ack", "wait"}
    /\ worker.type = "rsvp.created"
    /\ worker.ev # "none"

\* The pushes of the message attempted on websocket s with notice n.
PushesTo(s, n) ==
    {i \in DOMAIN worker.pushes :
        worker.pushes[i].sock = s /\ worker.pushes[i].notice = n}

\* The websockets of a list of connections.
Range(conns) == {conns[i] : i \in DOMAIN conns}

\* C13: consuming one rsvp.created message whose event and user exist and
\* whose owner and RSVP'er each have websockets registered when their send
\* starts results in exactly one push attempt per registered websocket of the
\* owner (rsvp.created), exactly one per registered websocket of the RSVP'er
\* (rsvp.confirmation), and no push to a websocket of any other user.
C13_OnePushPerLiveChannel ==
    Notified /\ worker.usr /\ worker.owner_conns # << >> /\ worker.user_conns # << >>
        => /\ \A s \in Range(worker.owner_conns) :
                  Cardinality(PushesTo(s, "rsvp.created")) = 1
           /\ \A s \in Range(worker.user_conns) :
                  Cardinality(PushesTo(s, "rsvp.confirmation")) = 1
           /\ Len(worker.pushes) = Len(worker.owner_conns) + Len(worker.user_conns)
           /\ \A i \in DOMAIN worker.pushes :
                  LET p == worker.pushes[i] IN
                  ws[p.sock].user =
                      IF p.notice = "rsvp.created" THEN worker.ev ELSE worker.user_id

\* The owner and another user, the RSVP'er, each had an open websocket and
\* each got their one message.
C13_Witness ==
    /\ Notified /\ worker.usr /\ worker.pc = "wait"
    /\ worker.ev # worker.user_id
    /\ worker.owner_conns # << >> /\ worker.user_conns # << >>
    /\ Len(worker.pushes) = 2
    /\ \A i \in DOMAIN worker.pushes : worker.pushes[i].ok

\* The consumer has handled an rsvp.created message.
Handled == worker.pc \in {"ack", "wait"} /\ worker.type = "rsvp.created"

\* C14: an rsvp.created message consumed after a referenced row was deleted
\* does not fail. When the event is gone nothing is pushed; when the RSVP's
\* user is gone that user is skipped (no rsvp.confirmation is pushed) while
\* the owner is still notified on each of their websockets.
C14_DeletedEntitiesAreSkipped ==
    /\ Handled /\ worker.ev = "none" => worker.pushes = << >>
    /\ Handled /\ worker.ev # "none" /\ ~worker.usr
           => /\ \A s \in Range(worker.owner_conns) :
                     Cardinality(PushesTo(s, "rsvp.created")) = 1
              /\ \A i \in DOMAIN worker.pushes :
                     worker.pushes[i].notice # "rsvp.confirmation"

\* The send_personal_message call carrying notice n has returned.
SendDone(n) ==
    /\ worker.type = "rsvp.created" /\ worker.ev # "none"
    /\ IF n = "rsvp.created"
       THEN \/ worker.notice = "rsvp.confirmation"
            \/ worker.notice = n /\ worker.pc = "push" /\ worker.conns = << >>
       ELSE /\ worker.notice = n
            /\ \/ worker.pc = "push" /\ worker.conns = << >>
               \/ worker.pc \in {"ack", "wait"}

\* The list the call carrying notice n walked.
Walked(n) == IF n = "rsvp.created" THEN worker.owner_conns ELSE worker.user_conns

\* C15: send_personal_message attempts every websocket of the list it walks
\* exactly once, whether or not an earlier write failed: a failing websocket
\* does not end the loop, and every websocket that was open when its turn came
\* received the message, once.
C15_FanOutSurvivesFailure ==
    \A n \in {"rsvp.created", "rsvp.confirmation"} :
        SendDone(n) =>
            \A s \in Range(Walked(n)) :
                /\ Cardinality(PushesTo(s, n)) = 1
                /\ \A i \in PushesTo(s, n) :
                       worker.pushes[i].was = "open" => worker.pushes[i].ok

\* A user with two websockets: the write to the first failed, the second
\* received the message.
C15_Witness ==
    \E n \in {"rsvp.created", "rsvp.confirmation"} :
        /\ SendDone(n)
        /\ Len(Walked(n)) = 2
        /\ \E i, j \in PushesTo(Walked(n)[1], n) \cup PushesTo(Walked(n)[2], n) :
               /\ i < j
               /\ ~worker.pushes[i].ok
               /\ worker.pushes[j].ok

\* The websockets registered for any user.
Registered == UNION {Range(active[u]) : u \in DOMAIN active}

\* C16: a websocket whose write failed is closed and removed from the registry
\* by the send_personal_message call that saw the failure, so that no later
\* send attempts a websocket an earlier send has closed.
C16_FailedChannelRemoved ==
    /\ \A n \in {"rsvp.created", "rsvp.confirmation"} :
           SendDone(n) =>
               \A i \in DOMAIN worker.pushes :
                   worker.pushes[i].notice = n /\ ~worker.pushes[i].ok
                       => /\ ws[worker.pushes[i].sock].state \in {"closed", "gone"}
                          /\ worker.pushes[i].sock \notin Registered
    /\ \A i \in DOMAIN worker.pushes : worker.pushes[i].was # "closed"

\* The websockets connect was called with for user u and disconnect was not
\* called with since.
Connected(u) ==
    {s \in Sockets : ws[s].user = u /\ ws[s].state \in {"open", "dead", "closed"}}

\* C17: after any sequence of connect and disconnect calls the registry maps
\* each user to exactly the websockets connected for that user and not yet
\* disconnected, each listed once, and no user key maps to an empty list.
C17_RegistryMatchesConnections ==
    /\ \A u \in Users :
           /\ Range(ActiveGet(active, u)) = Connected(u)
           /\ Len(ActiveGet(active, u)) = Cardinality(Connected(u))
    /\ \A u \in DOMAIN active : active[u] # << >>

\* One user's last websocket was disconnected and the key is gone, while the
\* other user still has a websocket registered.
C17_Witness ==
    \E u, v \in Users, s \in Sockets :
        /\ ws[s].user = u /\ ws[s].state = "gone"
        /\ u \notin DOMAIN active
        /\ v \in DOMAIN active /\ Connected(v) # {}

\* C18: once logout has returned 204 for an access token, every later
\* authenticated request with that token is rejected by get_current_user with
\* 401 'Token has been revoked' until the token expires, whatever the state of
\* the cache. Requests run one at a time, so a request that is running with a
\* logged-out token arrived after the logout returned.
C18_LoggedOutTokenIsRejected ==
    \A t \in Tasks :
        (/\ task[t].op = "me"
         /\ task[t].pc = "done"
         /\ tokens[task[t].token].logged_out
         /\ tokens[task[t].token].state = "valid")
            => task[t].resp = RevokedError

\* C19: every register call for an address that is already registered,
\* including the loser of two concurrent registrations of one address, ends
\* with HTTP 400 'Email already registered' and creates no second user: a call
\* with a valid password that created no user was answered with that 400, and
\* no two rows share an address.
C19_ExistingEmailIsRefused ==
    /\ \A t \in Tasks :
           (/\ task[t].op = "register" /\ task[t].pc = "done"
            /\ task[t].password = "strong"
            /\ task[t].result = NoValue)
               => task[t].resp = EmailTakenError
    /\ \A a, b \in users : a.email = b.email => a = b

\* C20: on a cache miss get_event and list_events report, for an event with
\* capacity > 0, available_spots = max(0, capacity - going count): the
\* capacity less the going rows while there is room (capacity - 1 after one
\* going RSVP), 0 once the going rows reach or exceed the capacity, never a
\* negative number. The tables do not change while the reads run, so every
\* dict reported or cached was computed from the rows as they are.
C20_AvailableSpotsClamped ==
    \A d \in ReportedDicts :
        Limited(d.id) =>
            LET going == Cardinality(GoingRows(d.id)) IN
            /\ d.available_spots >= 0
            /\ going < d.capacity => d.available_spots = d.capacity - going
            /\ going >= d.capacity => d.available_spots = 0

\* A read that missed the cache reported 0 spots for an event with more
\* going rows than its capacity.
C20_Witness ==
    \E t \in Tasks :
        /\ task[t].op \in {"get_event", "list_events"}
        /\ task[t].pc = "cache_set"
        /\ \E d \in EventDictsOf(task[t].result) :
               /\ Limited(d.id)
               /\ Cardinality(GoingRows(d.id)) > d.capacity
               /\ d.available_spots = 0

\* The place of a step in create_rsvp: event lookup, capacity check,
\* insert and commit, the two evictions, publish, return.
StepOrder(pc) ==
    CASE pc = "idle" -> 0
      [] pc = "select_event" -> 1
      [] pc = "count" -> 2
      [] pc = "commit" -> 3
      [] pc = "invalidate_list" -> 4
      [] pc = "invalidate_detail" -> 5
      [] pc = "publish" -> 6
      [] OTHER -> 7

\* The rsvp.created messages on the exchange that carry row r.
MessagesOf(r) == {i \in DOMAIN broker : broker[i] = RsvpCreated(r)}

\* C21: within one create_rsvp request the steps run in order (event lookup,
\* capacity check, insert and commit, cache eviction, publish), rows are
\* inserted by the commit step only and messages published by the publish
\* step only; so every rsvp.created message on the exchange carries the rsvp
\* id, user id and event id of a committed row, and a request answered 200
\* has published exactly one message, for its row.
C21_PublishAfterCommitOnce ==
    /\ [](/\ \A i \in DOMAIN broker : \E r \in rsvps : broker[i] = RsvpCreated(r)
          /\ \A r \in rsvps : Cardinality(MessagesOf(r)) <= 1
          /\ \A t \in Tasks :
                 task[t].op = "create_rsvp" /\ task[t].resp = "200"
                     => /\ task[t].result \in rsvps
                        /\ Cardinality(MessagesOf(task[t].result)) = 1)
    /\ [][\A t \in Tasks :
              task[t].op = "create_rsvp" /\ task'[t] # task[t]
                  => /\ StepOrder(task'[t].pc) > StepOrder(task[t].pc)
                        \/ task'[t].pc = "idle"
                     /\ rsvps' # rsvps => task[t].pc = "commit"
                     /\ broker' # broker => task[t].pc = "publish"]_vars

\* Two requests were answered 200 and each row has its one message.
C21_Witness ==
    \E a, b \in Tasks :
        /\ a # b
        /\ task[a].op = "create_rsvp" /\ task[a].resp = "200"
        /\ task[b].op = "create_rsvp" /\ task[b].resp = "200"
        /\ Len(broker) = 2
        /\ Cardinality(MessagesOf(task[a].result)) = 1
        /\ Cardinality(MessagesOf(task[b].result)) = 1

\* The errors create_rsvp refuses a request with.
Refusals == {NotFoundError, CapacityError, DuplicateError}

\* C22: a create_rsvp that fails with NotFound, CapacityExceeded or
\* DuplicateRSVP has no side effects. Every step of such a request is a step
\* that leads up to the commit or the step that ends in the error; none of
\* them changes the rsvps table, evicts or stores a cache entry, or publishes.
C22_RefusalHasNoSideEffects ==
    [][\A t \in Tasks :
           (/\ task[t].op = "create_rsvp" \/ task'[t].op = "create_rsvp"
            /\ task'[t] # task[t]
            /\ task'[t].repo \in Refusals \/ StepOrder(task'[t].pc) <= 3)
               => /\ rsvps' = rsvps
                  /\ cache' = cache
                  /\ broker' = broker]_vars

\* A request was refused as a duplicate; the table holds the one row of the
\* first request and the exchange its one message.
C22_Witness ==
    \E t \in Tasks :
        /\ task[t].op = "create_rsvp" /\ task[t].pc = "done"
        /\ task[t].repo = DuplicateError
        /\ Cardinality(rsvps) = 1
        /\ Len(broker) = 1

\* The keys the read handlers store under.
ReadKeys == {DetailKey(e) : e \in EventIds} \cup {ListKey(l) : l \in ListLimits}

\* The read of task t was answered from the cache with a value the tables no
\* longer give.
StaleHit(t) ==
    /\ task[t].op = "get_event"
    /\ task[t].pc = "done"
    /\ task[t].age # None
    /\ task[t].result # get_event_query(task[t].event)

\* C23: no cache entry is older than its time to live, so a read answered from
\* the cache, stale or not, saw an entry stored less than CacheTTL seconds
\* before; and again and again the cache holds no entry, so every entry, stale
\* or not, is eventually gone from it.
C23_StalenessBoundedByTtl ==
    /\ [](/\ \A k \in DOMAIN cache :
                /\ cache[k].expire = CacheTTL
                /\ now - cache[k].at < CacheTTL
          /\ \A t \in Tasks : task[t].age # None => task[t].age < CacheTTL)
    /\ []<>(DOMAIN cache = {})

\* A read answered after the RSVP was committed with the available_spots of
\* before it, from an entry stored some time ago.
C23_Witness ==
    \E t \in Tasks :
        /\ StaleHit(t)
        /\ task[t].age > 0
        /\ \E r \in rsvps : r.event_id = task[t].event /\ r.status = "going"
        /\ task[t].result.available_spots
               # get_event_query(task[t].event).available_spots
\* The key prefixes delete_pattern is called with.
KeyPrefixes == {"events:list", "events:detail"}

\* The keys cache.delete may be called with.
DeletableKeys == ReadKeys \cup {InvalidatedDetailKey(e) : e \in EventIds}

\* The two deletes create_rsvp issues for event e, applied to the cache c.
InvalidateEvent(c, e) ==
    RedisDelete(RedisDeletePattern(c, "events:list"), InvalidatedDetailKey(e))

\* Entry j is in d exactly as it is in c.
Kept(c, d, j) == j \in DOMAIN d /\ d[j] = c[j]

\* C24: on every cache the server reaches, deleting a key or a pattern that
\* matches nothing changes nothing, a delete leaves every entry it does not
\* match as it was, deleting twice equals deleting once, and the invalidation
\* steps of create_rsvp never raise and leave the cache alone when nothing
\* matches.
C24_InvalidationIdempotent ==
    /\ [](/\ \A k \in DeletableKeys :
                /\ k \notin DOMAIN cache => RedisDelete(cache, k) = cache
                /\ \A j \in DOMAIN cache \ {k} : Kept(cache, RedisDelete(cache, k), j)
                /\ RedisDelete(RedisDelete(cache, k), k) = RedisDelete(cache, k)
          /\ \A p \in KeyPrefixes :
                /\ RedisKeys(cache, p) = {} => RedisDeletePattern(cache, p) = cache
                /\ \A j \in DOMAIN cache \ RedisKeys(cache, p) :
                       Kept(cache, RedisDeletePattern(cache, p), j)
                /\ RedisDeletePattern(RedisDeletePattern(cache, p), p)
                       = RedisDeletePattern(cache, p)
          /\ \A e \in EventIds :
                InvalidateEvent(InvalidateEvent(cache, e), e) = InvalidateEvent(cache, e))
    /\ [][\A t \in Tasks :
              /\ (At(t, "create_rsvp", "invalidate_list") /\ task'[t] # task[t])
                     => /\ task'[t].pc = "invalidate_detail"
                        /\ RedisKeys(cache, "events:list") = {} => cache' = cache
              /\ (At(t, "create_rsvp", "invalidate_detail") /\ task'[t] # task[t])
                     => /\ task'[t].pc = "publish"
                        /\ InvalidatedDetailKey(task[t].event) \notin DOMAIN cache
                               => cache' = cache]_vars

\* A create_rsvp whose two deletes matched nothing, with the entry of another
\* key still in the cache.
C24_Witness ==
    \E t \in Tasks :
        /\ At(t, "create_rsvp", "publish")
        /\ task[t].evicted = 0
        /\ cache # << >>
        /\ cache = InvalidateEvent(cache, task[t].event)
\* C25: every delivered message is acknowledged once when its handling ends,
\* whether handle_message returned or raised; no message is rejected or
\* requeued; a raising handler is logged, leads to the acknowledgement and
\* leaves run_worker iterating the queue.
C25_AckExactlyOnce ==
    /\ [](/\ consumer.rejected = 0
          /\ worker.pc = "wait" => consumer.acked = worker.consumed
          /\ worker.pc # "wait" => consumer.acked = worker.consumed - 1
          /\ consumer.raised => consumer.pc = "consuming" /\ consumer.errors > 0)
    /\ [][/\ (consumer'.raised /\ ~consumer.raised)
                => /\ consumer'.errors = consumer.errors + 1
                   /\ worker'.pc = "ack"
          /\ consumer'.acked # consumer.acked
                => /\ worker.pc = "ack"
                   /\ consumer'.acked = consumer.acked + 1]_vars

\* A message whose handler raised was acknowledged, and the message after it
\* was handled, pushed to a websocket and acknowledged.
C25_Witness ==
    /\ consumer.attempt = 1
    /\ consumer.errors = 1
    /\ ~consumer.raised
    /\ worker.consumed = 2
    /\ consumer.acked = 2
    /\ \E i \in DOMAIN worker.pushes : worker.pushes[i].ok

\* run_worker is trying to connect, or has given up.
Connecting == consumer.pc \in {"connect", "sleep", "failed"}

\* C26: run_worker makes at most max_retries attempts and has slept delay
\* seconds after each failed attempt but the last; it gives up only when
\* attempt max_retries failed; until an attempt succeeds nothing is declared
\* and nothing consumed; after the first success it never attempts again and
\* it consumes only with the exchange, the queue and the rsvp.* binding
\* declared, in that order.
C26_BoundedConnectRetries ==
    /\ [](/\ consumer.attempt \in 1..max_retries
          /\ consumer.slept = delay * (consumer.attempt - 1)
          /\ consumer.pc = "failed" => consumer.attempt = max_retries
          /\ Connecting => consumer.declared = << >> /\ worker.consumed = 0
          /\ consumer.pc = "sleep" => consumer.errors = consumer.attempt
          /\ (consumer.pc = "consuming" \/ worker.consumed > 0)
                => consumer.declared = Topology)
    /\ [][/\ ~Connecting
                => /\ consumer'.attempt = consumer.attempt
                   /\ consumer'.slept = consumer.slept
                   /\ consumer'.pc \notin {"connect", "sleep", "failed"}
          /\ consumer'.attempt # consumer.attempt
                => /\ consumer.pc = "sleep"
                   /\ consumer'.attempt = consumer.attempt + 1
          /\ consumer'.declared # consumer.declared
                => /\ Len(consumer'.declared) = Len(consumer.declared) + 1
                   /\ consumer'.declared
                          = SubSeq(Topology, 1, Len(consumer'.declared))]_vars

\* The last attempt connected after nine failures, and a message was consumed.
C26_Witness ==
    /\ consumer.pc = "consuming"
    /\ consumer.attempt = max_retries
    /\ consumer.errors >= max_retries - 1
    /\ worker.consumed > 0
\* The endpoints that are inside an async with self.lock block.
InCritical == {s \in Sockets : reg[s].pc \in {"read", "write", "release"}}

\* How many times websocket s is in the list of user u.
Occurrences(u, s) ==
    Cardinality({i \in DOMAIN ActiveGet(active, u) : ActiveGet(active, u)[i] = s})

\* C27: at most one endpoint is inside the locked block and it holds the
\* lock; every websocket whose connect wrote and whose disconnect has not is
\* in the list of its user exactly once and every other websocket is in no
\* list, so no registration and no removal is lost; no user maps to an empty
\* list; and a step of the fan-out leaves the map as it is.
C27_RegistryMutationsExclusive ==
    /\ [](/\ Cardinality(InCritical) <= 1
          /\ \A s \in InCritical : lock = s
          /\ InCritical = {} => lock = "none"
          /\ \A s \in Sockets, u \in Users :
                Occurrences(u, s)
                    = IF reg[s].done = "connected" /\ ws[s].user = u THEN 1 ELSE 0
          /\ \A u \in DOMAIN active : active[u] # << >>)
    /\ [][/\ worker' # worker => active' = active
          /\ active' # active => \E s \in Sockets : lock = s /\ reg[s].pc = "write"]_vars

\* While the fan-out is walking its copy of a user's list, one websocket of
\* that user is being removed under the lock and another waits for the lock
\* to register.
C27_Witness ==
    \E s1, s2 \in Sockets :
        /\ ws[s1].user = ws[s2].user
        /\ reg[s1].op = "disconnect" /\ reg[s1].pc = "write"
        /\ reg[s2].op = "connect" /\ reg[s2].pc = "acquire"
        /\ worker.pc = "push" /\ worker.conns # << >>
        /\ worker.target = ws[s1].user

\* Websocket s is in the list of some user.
InRegistry(s) == \E u \in DOMAIN active : \E i \in DOMAIN active[u] : active[u][i] = s

\* C29: a websocket in the list of user u presented a token that decodes, is
\* of type access and has sub u, and u is the user of its path; a request
\* leaves the checks rejected exactly when one of them failed, and a rejected
\* websocket is in no list; a websocket whose endpoint returned after its
\* receive loop ended is in no list.
C29_RegisteredOnlyWithOwnAccessToken ==
    /\ [](/\ \A u \in DOMAIN active : \A i \in DOMAIN active[u] :
                LET s == active[u][i] IN
                /\ ws[s].user = u
                /\ reg[s].token.decodes
                /\ reg[s].token.type = "access"
                /\ reg[s].token.sub = u
          /\ \A s \in Sockets :
                ws[s].state \in {"rejected", "gone"} => ~InRegistry(s))
    /\ [][\A s \in Sockets :
              (ws[s].state = "free" /\ ws'[s].state # "free")
                  => (ws'[s].state = "rejected"
                         <=> ~(/\ reg'[s].token.decodes
                               /\ reg'[s].token.type = "access"
                               /\ reg'[s].token.sub = ws'[s].user))]_vars

\* One websocket was rejected for presenting the access token of another
\* user, one was registered and then removed when its client went away.
C29_Witness ==
    \E s1, s2 \in Sockets :
        /\ ws[s1].state = "rejected"
        /\ reg[s1].token.decodes /\ reg[s1].token.type = "access"
        /\ reg[s1].token.sub # ws[s1].user
        /\ ws[s2].state = "gone"
        /\ reg[s2].done = "disconnected"
\* The connections publish_event has opened that are not closed.
OpenConnections == {c \in 1..publisher.opened : c \notin publisher.closed}

\* C28: never is more than one publisher connection open, so a connection is
\* only opened when none is usable, also when publish_event calls overlap
\* before the first connection is stored.
C28_OnePublisherConnection ==
    /\ [](Cardinality(OpenConnections) <= 1)
    /\ [][publisher'.opened # publisher.opened => OpenConnections = {}]_vars
\* Task t has answered a GET /events.
Listed(t) ==
    /\ task[t].op = "list_events"
    /\ task[t].pc = "done"
    /\ task[t].total # None

\* C30: with one request at a time, a listing whose items are those the
\* events table gives also reports the table's count as its total, so after
\* a create_event the next listing's total includes the new event.
C30_TotalConsistentWithItems ==
    \A t \in Tasks :
        (Listed(t) /\ task[t].result = list_events_query(task[t].limit))
            => task[t].total = count_events_query.n
====
